---- MODULE Spec2Model ----
(***************************************************************************)
(* Risk Signal Engine of fraud_detection_demo_app.                         *)
(*                                                                         *)
(* Twelve state machines over one set of variables:                        *)
(*   Spec      signal fusion: the two analysis entry points                *)
(*             (main_app.analyze_request, routes.analyze_user)             *)
(*   SpecGeo   GeoVelocityDetector.detect over the login store             *)
(*   SpecLogins  the same, from stores that hold login histories           *)
(*   SpecVel   AccountVelocityMonitor.check                                *)
(*   SpecPwd   PasswordAttackDetector.detect over the failed-login store   *)
(*   SpecSess  SessionAnomalyDetector.detect over the user-model store     *)
(*   SpecDev   DeviceFingerprinter.analyze over the device store           *)
(*   SpecStore   store_login / get_last_login of the three stores          *)
(*   SpecRequest, SpecRequestLive  one request through an entry point,     *)
(*             detector call by detector call                              *)
(*   SpecGeoRace  two concurrent GeoVelocityDetector.detect calls          *)
(*   SpecDevRace  concurrent DeviceFingerprinter.analyze calls             *)
(*                                                                         *)
(* Times are Unix seconds.  Distances are hectometres (0.1 km), so that    *)
(* every comparison of the source stays inside 32-bit integers.            *)
(* Non-integer values (the mean of analyze_request, threshold risks) are   *)
(* kept as exact fractions and compared by cross-multiplication.           *)
(***************************************************************************)
EXTENDS Integers, Sequences, FiniteSets, TLC

VARIABLES
    request,        \* fusion: the entry point called and the eight signal scores
    response,       \* fusion: the response of the entry point
    last_login,     \* store: users.last_login, per user
    geo_call,       \* GeoVelocityDetector.detect: last call (arguments, previous login, result)
    now,            \* the clock, int(time.time())
    vel_in,         \* AccountVelocityMonitor.check: arguments and the draws of random.randint
    vel_result,     \* AccountVelocityMonitor.check: result
    failed_logins,  \* store: the failed-login records
    recorded,       \* number of record_failed_login calls so far
    pwd_call,       \* PasswordAttackDetector.detect: last call (arguments,
                    \* the failed logins it read, which classifiers triggered, result)
    user_models,    \* store: the behaviour model of each user (user_models)
    default_transitions,  \* SessionAnomalyDetector.default_transitions, a dict
                    \* whose rows the models of new users share
    sessions_done,  \* number of SessionAnomalyDetector.detect calls so far
    sess_call,      \* SessionAnomalyDetector.detect: last call (arguments, the
                    \* model stored before it, combined anomaly, result)
    logins,         \* store: the login history of each user (logins/<user>.json)
    geo_calls_done, \* number of GeoVelocityDetector.detect calls so far
    devices,        \* store: the record of each device (devices/<id>.json)
    analyses_done,  \* number of DeviceFingerprinter.analyze calls so far
    dev_call,       \* DeviceFingerprinter.analyze: last call (argument, the
                    \* record stored before it, result)
    db_type,        \* store contract: the implementation behind it (Database
                    \* with DB_TYPE file or mongodb, or MockDatabase)
    db_store,       \* store contract: the logins and users collections / files
    db_calls_done,  \* store contract: number of store_login calls so far
    db_call,        \* store contract: last store_login (the login stored) and
                    \* what get_last_login returned right after it
    http_request,   \* entry point: the request being handled (endpoint, user
                    \* id of the path, body, what request.json gives, the
                    \* verdict access-time will reach)
    handler_pc,     \* entry point: where the handler is (idle, calling the
                    \* i-th detector, blocked in a call, fusion, done)
    handler_results,  \* entry point: the results dict built so far
    logins_at_start,  \* the login histories when the request arrived
    http_response,  \* entry point: the response returned (status, body)
    requests_done,  \* number of requests received so far
    geo_threads,    \* concurrent GeoVelocityDetector.detect calls: per request
                    \* thread its position, arguments, the previous login it
                    \* read and its result
    store_at_start, \* the login store before the concurrent calls
    dev_threads     \* concurrent DeviceFingerprinter._store_fingerprint calls:
                    \* per request thread its position and the record it read

vars == <<request, response, last_login, geo_call, now, vel_in, vel_result,
          failed_logins, recorded, pwd_call,
          user_models, default_transitions, sessions_done, sess_call,
          logins, geo_calls_done, devices, analyses_done, dev_call,
          db_type, db_store, db_calls_done, db_call,
          http_request, handler_pc, handler_results, logins_at_start, http_response,
          requests_done, geo_threads, store_at_start, dev_threads>>

contractVars == <<db_type, db_store, db_calls_done, db_call>>

threadVars == <<geo_threads, store_at_start, dev_threads>>

handlerVars == <<http_request, handler_pc, handler_results, logins_at_start,
                 http_response, requests_done>>

\* the variables of the state machines added after the detectors'
restVars == <<contractVars, handlerVars, threadVars>>

sessVars == <<user_models, default_transitions, sessions_done, sess_call>>

devVars == <<devices, analyses_done, dev_call>>

\* the detectors' variables other than the login store
nonLoginVars == <<request, response, geo_call, now, vel_in, vel_result,
                  failed_logins, recorded, pwd_call, sessVars, devVars,
                  geo_calls_done>>

\* the variables of the detectors and of signal fusion
coreVars == <<request, response, last_login, geo_call, now, vel_in, vel_result,
              failed_logins, recorded, pwd_call, sessVars, devVars, logins,
              geo_calls_done>>

\* Python None, where a record is expected / where a location is expected
None == [none |-> TRUE]
NoLocation == "no_location"

(***************************************************************************)
(* Signal fusion                                                           *)
(***************************************************************************)

Signals ==
    {"user_agent", "geo_velocity", "access_time", "password_attack",
     "device", "account_velocity", "session", "ip_reputation"}

\* Scores the detectors report (risk_score of each result), a sample of
\* each detector's range.  For every combination of this domain the
\* double-precision weighted sum of analyze_user rounds as the exact sum does.
ScoreSet ==
    [user_agent       |-> {0, 40, 90},
     geo_velocity     |-> {0, 50, 60, 80, 100},
     access_time      |-> {0, 50, 75},
     password_attack  |-> {0, 85, 90},
     device           |-> {0, 25, 50, 85},
     account_velocity |-> {0, 37, 90},
     session          |-> {0, 87},
     ip_reputation    |-> {0, 50, 90}]

ScoreVectors == [user_agent : ScoreSet.user_agent,
                 geo_velocity : ScoreSet.geo_velocity,
                 access_time : ScoreSet.access_time,
                 password_attack : ScoreSet.password_attack,
                 device : ScoreSet.device,
                 account_velocity : ScoreSet.account_velocity,
                 session : ScoreSet.session,
                 ip_reputation : ScoreSet.ip_reputation]

\* routes.py: weights, in hundredths
weights ==
    [user_agent |-> 10, geo_velocity |-> 20, access_time |-> 10,
     password_attack |-> 15, device |-> 15, account_velocity |-> 10,
     session |-> 10, ip_reputation |-> 10]

RECURSIVE SumOver(_, _)
SumOver(f, S) ==
    IF S = {} THEN 0
    ELSE LET k == CHOOSE x \in S : TRUE IN f[k] + SumOver(f, S \ {k})

\* Python round(): to the nearest integer, ties to the even one; n/d >= 0
py_round(n, d) ==
    LET q == n \div d
        r == n % d
    IN IF 2 * r > d \/ (2 * r = d /\ q % 2 = 1) THEN q + 1 ELSE q

\* A score is the fraction num/den (den = 1 for an integer score).
get_risk_level_mut(score) ==
    IF score.num < 25 * score.den THEN "low"
    ELSE IF score.num <= 50 * score.den THEN "medium"
    ELSE IF score.num < 75 * score.den THEN "high"
    ELSE "critical"

get_risk_level(score) ==
    IF score.num < 25 * score.den THEN "low"
    ELSE IF score.num < 50 * score.den THEN "medium"
    ELSE IF score.num < 75 * score.den THEN "high"
    ELSE "critical"

get_recommendation(score) ==
    IF score.num < 25 * score.den THEN "allow"
    ELSE IF score.num < 50 * score.den THEN "monitor"
    ELSE IF score.num < 75 * score.den THEN "challenge"
    ELSE "block"

\* main_app.analyze_request: the mean of the risk scores present, not rounded
analyze_request_overall(results) ==
    LET risk_scores == SumOver(results, Signals)
    IN [num |-> risk_scores, den |-> Cardinality(Signals)]

\* routes.analyze_user: round(sum of risk_score * weight)
analyze_user_overall(results) ==
    LET weighted_sum == SumOver([k \in Signals |-> results[k] * weights[k]], Signals)
    IN [num |-> py_round(weighted_sum, 100), den |-> 1]

MakeResponse(overall, results) ==
    [overall_risk |-> overall,
     risk_level |-> get_risk_level(overall),
     recommendation |-> get_recommendation(overall),
     predictors |-> results]

analyze_request ==
    /\ request.endpoint = "analyze"
    /\ response = None
    /\ response' = MakeResponse(analyze_request_overall(request.results), request.results)
    /\ UNCHANGED <<request, last_login, geo_call, now, vel_in, vel_result,
                   failed_logins, recorded, pwd_call, sessVars, devVars, logins, geo_calls_done, restVars>>

analyze_user ==
    /\ request.endpoint = "analyze-user"
    /\ response = None
    /\ response' = MakeResponse(analyze_user_overall(request.results), request.results)
    /\ UNCHANGED <<request, last_login, geo_call, now, vel_in, vel_result,
                   failed_logins, recorded, pwd_call, sessVars, devVars, logins, geo_calls_done, restVars>>

(***************************************************************************)
(* Geo-velocity detector                                                   *)
(***************************************************************************)

NumUsers == 1
Users == 1 .. NumUsers

\* _get_location: the location an address resolves to; ip_x does not resolve
Locations == {"A", "B", "C", "D"}
IPs == {"ip_a", "ip_b", "ip_c", "ip_d", "ip_x"}
get_location(ip) ==
    CASE ip = "ip_a"  -> "A"
      [] ip = "ip_b"  -> "B"
      [] ip = "ip_c"  -> "C"
      [] ip = "ip_d"  -> "D"
      [] OTHER        -> NoLocation

\* _calculate_distance (haversine, r = 6371 km) of the four locations
\* A (0, 0), B (0, 0.045), C (0, 0.27), D (0, 17.9864), in hectometres:
\* 5.0 km, 30.0 km, 2000.0 km from A.
Longitude == [A |-> 0, B |-> 50, C |-> 300, D |-> 20000]
calculate_distance(l1, l2) ==
    IF Longitude[l1] >= Longitude[l2] THEN Longitude[l1] - Longitude[l2]
    ELSE Longitude[l2] - Longitude[l1]

T0 == 1700000000
TimeOffsets == {0, 60, 61, 601, 1861, 8061, 604861, 604862}
Timestamps == {T0 + o : o \in TimeOffsets}

\* speed > limit, speed = distance_km / time_diff_hours
SpeedAbove(distance, gap, limit) == distance * 360 > limit * gap

assess_travel_risk(distance, gap) ==
    LET walking_speed == 7
        driving_speed == 120
        train_speed == IF distance < 500 THEN 200 ELSE 300
        airplane_speed == IF distance < 500 THEN 700 ELSE 900
    IN IF SpeedAbove(distance, gap, airplane_speed)
         THEN [risk_score |-> 100, status |-> "impossible_travel"]
       ELSE IF SpeedAbove(distance, gap, train_speed)
         THEN [risk_score |-> 80, status |-> "highly_suspicious_travel"]
       ELSE IF SpeedAbove(distance, gap, driving_speed)
         THEN [risk_score |-> 60, status |-> "suspicious_travel"]
       ELSE IF SpeedAbove(distance, gap, walking_speed)
         THEN [risk_score |-> 0, status |-> "normal_travel"]
       ELSE [risk_score |-> 0, status |-> "slow_travel"]

\* time_diff_hours < 0.0167, time_diff_hours = gap / 3600.0
IsDuplicateGap_mut(gap) == gap >= 0 /\ gap * 100 < 167 * 36
IsDuplicateGap(gap) == gap * 100 < 167 * 36

IsExtendedGap_mut(gap) == gap >= 168 * 3600

\* time_diff_hours > 168
IsExtendedGap(gap) == gap > 168 * 3600

store_login_mut(store, user_id, ip_address, location, timestamp) == store

\* logins[-n:]
LastOf(seq, n) == IF Len(seq) <= n THEN seq ELSE SubSeq(seq, Len(seq) - n + 1, Len(seq))

\* Database.store_login, line 80: keep only the last 10 logins
keep_logins(logins_of_user) == LastOf(logins_of_user, 10)

\* Database.store_login (file storage): the login is appended to the login
\* history of the user, of which the last 10 are kept, and becomes the
\* user's last_login
store_login(store, user_id, ip_address, location, timestamp) ==
    LET login_data == [ip |-> ip_address, location |-> location, timestamp |-> timestamp]
    IN [logins |-> [store.logins EXCEPT ![user_id] = keep_logins(Append(@, login_data))],
        last_login |-> [store.last_login EXCEPT ![user_id] = login_data]]

\* Database.get_last_login
get_last_login(store, user_id) == store.last_login[user_id]

\* GeoVelocityDetector.detect from line 50 on, given what _get_previous_login
\* returned: the result and the store after the call
detect_after_read(store, previous_login, user_id, ip_address, current_timestamp) ==
    LET current_location == get_location(ip_address)
        stored == store_login(store, user_id, ip_address, current_location, current_timestamp)
    IN IF current_location = NoLocation
         THEN [result |-> [risk_score |-> 50, status |-> "unknown_location"], store |-> store]
       ELSE IF previous_login = None
         THEN [result |-> [risk_score |-> 0, status |-> "first_login"], store |-> stored]
       ELSE LET gap == current_timestamp - previous_login.timestamp
                distance_km == calculate_distance(previous_login.location, current_location)
            IN IF IsDuplicateGap(gap)
                 THEN [result |-> [risk_score |-> 0, status |-> "duplicate_request"], store |-> store]
               ELSE IF IsExtendedGap(gap)
                 THEN [result |-> [risk_score |-> 0, status |-> "extended_time_gap"], store |-> stored]
               ELSE IF distance_km < 100
                 THEN [result |-> [risk_score |-> 0, status |-> "same_area"], store |-> stored]
               ELSE [result |-> assess_travel_risk(distance_km, gap), store |-> stored]

\* GeoVelocityDetector.detect: the result and the store after the call
detect_outcome(store, user_id, ip_address, current_timestamp) ==
    detect_after_read(store, get_last_login(store, user_id),
                      user_id, ip_address, current_timestamp)

MaxGeoCalls == 2

GeoVelocityDetector_detect(user_id, ip_address, current_timestamp) ==
    LET out == detect_outcome([logins |-> logins, last_login |-> last_login],
                              user_id, ip_address, current_timestamp)
    IN /\ geo_calls_done < MaxGeoCalls
       /\ geo_calls_done' = geo_calls_done + 1
       /\ last_login' = out.store.last_login
       /\ logins' = out.store.logins
       /\ geo_call' = [user_id |-> user_id, ip |-> ip_address,
                       timestamp |-> current_timestamp,
                       previous_login |-> last_login[user_id],
                       result |-> out.result]
       /\ UNCHANGED <<request, response, now, vel_in, vel_result,
                      failed_logins, recorded, pwd_call, sessVars, devVars, restVars>>

GeoDetect ==
    \E u \in Users, ip \in IPs, ts \in Timestamps :
        GeoVelocityDetector_detect(u, ip, ts)

(***************************************************************************)
(* The store contract for logins: store_login / get_last_login of the      *)
(* three store implementations.  A store is [logins, users]: per user the  *)
(* login documents (logins/<user>.json as text, or the logins collection)  *)
(* and the user document (users/<user>.json as text, or the users          *)
(* collection), None where there is none.                                  *)
(***************************************************************************)

StoreKinds == {"file", "mongodb", "mock"}

\* GeoVelocityDetector._store_login: login_data
make_login_data(user_id, ip_address, location, timestamp) ==
    [user_id |-> user_id, ip |-> ip_address, location |-> location,
     timestamp |-> timestamp]

\* json.dump of a login: the members of the object in insertion order
json_dump(login_data) ==
    <<<<"user_id", login_data.user_id>>, <<"ip", login_data.ip>>,
      <<"location", login_data.location>>, <<"timestamp", login_data.timestamp>>>>

\* json.load of the text of a login: the dict of its members
json_load(text) ==
    LET members == {text[i] : i \in DOMAIN text}
        member(key) == (CHOOSE m \in members : m[1] = key)[2]
    IN [user_id |-> member("user_id"), ip |-> member("ip"),
        location |-> member("location"), timestamp |-> member("timestamp")]

\* Database.store_login, file storage
file_store_login(db, login_data) ==
    LET user_id == login_data.user_id
        read == [i \in DOMAIN db.logins[user_id] |-> json_load(db.logins[user_id][i])]
        kept == keep_logins(Append(read, login_data))
    IN [logins |-> [db.logins EXCEPT ![user_id] = [i \in DOMAIN kept |-> json_dump(kept[i])]],
        users |-> [db.users EXCEPT ![user_id] = json_dump(login_data)]]

\* Database.get_last_login, file storage
file_get_last_login(db, user_id) ==
    IF db.users[user_id] = None THEN None ELSE json_load(db.users[user_id])

\* insert_one gives the document an _id, in login_data itself
next_object_id(db) ==
    1 + SumOver([u \in DOMAIN db.logins |-> Len(db.logins[u])], DOMAIN db.logins)
with_object_id(login_data, object_id) ==
    [user_id |-> login_data.user_id, ip |-> login_data.ip,
     location |-> login_data.location, timestamp |-> login_data.timestamp,
     _id |-> object_id]

\* Database.store_login, mongodb: logins.insert_one, then users.update_one
mongodb_store_login(db, login_data) ==
    LET document == with_object_id(login_data, next_object_id(db))
    IN [logins |-> [db.logins EXCEPT ![login_data.user_id] = Append(@, document)],
        users |-> [db.users EXCEPT ![login_data.user_id] = document]]

\* Database.get_last_login, mongodb
mongodb_get_last_login(db, user_id) == db.users[user_id]

\* MockDatabase.store_login: pass
MockDatabase_store_login(db, login_data) == db

\* MockDatabase.get_last_login: logins.find(user_id).sort('timestamp', -1).limit(1)
MockDatabase_get_last_login(db, user_id) ==
    LET found == db.logins[user_id]
        newest == CHOOSE i \in DOMAIN found :
                     \A j \in DOMAIN found : found[i].timestamp >= found[j].timestamp
    IN IF found = << >> THEN None ELSE found[newest]

contract_store_login(kind, db, login_data) ==
    CASE kind = "file"    -> file_store_login(db, login_data)
      [] kind = "mongodb" -> mongodb_store_login(db, login_data)
      [] kind = "mock"    -> MockDatabase_store_login(db, login_data)

contract_get_last_login(kind, db, user_id) ==
    CASE kind = "file"    -> file_get_last_login(db, user_id)
      [] kind = "mongodb" -> mongodb_get_last_login(db, user_id)
      [] kind = "mock"    -> MockDatabase_get_last_login(db, user_id)

MaxStoreCalls == 2
StoreIPs == {"ip_a", "ip_d"}
StoreTimestamps == {T0, T0 + 60, T0 + 3600}

\* store_login(login_data) followed at once by get_last_login(user_id)
StoreAndReadBack(user_id, ip_address, timestamp) ==
    LET login_data == make_login_data(user_id, ip_address, get_location(ip_address), timestamp)
        stored == contract_store_login(db_type, db_store, login_data)
    IN /\ db_calls_done < MaxStoreCalls
       /\ db_calls_done' = db_calls_done + 1
       /\ db_store' = stored
       /\ db_call' = [login_data |-> login_data,
                      read_back |-> contract_get_last_login(db_type, stored, user_id)]
       /\ UNCHANGED <<db_type, coreVars, handlerVars, threadVars>>

StoreContract ==
    \E u \in Users, ip \in StoreIPs, ts \in StoreTimestamps :
        StoreAndReadBack(u, ip, ts)

(***************************************************************************)
(* Account velocity monitor                                                *)
(***************************************************************************)

EntityTypes == {"ip", "subnet", "email_domain"}
WindowNames == {"short", "medium", "long"}

\* AccountVelocityMonitor.__init__
time_windows == [short |-> 60 * 5, medium |-> 60 * 60, long |-> 60 * 60 * 24]

thresholds ==
    [ip           |-> [short |-> 3, medium |-> 10, long |-> 30],
     email_domain |-> [short |-> 5, medium |-> 20, long |-> 50],
     subnet       |-> [short |-> 8, medium |-> 25, long |-> 80]]

\* Arguments of check.  _get_subnet gives a /24 for a dotted IPv4 address
\* only; the domain is the part of the email after '@'.
VelIPs == {"10.0.0.5", "fe80::1"}
Emails == {"", "bob@example.com"}
NoEntity == "no_entity"
get_subnet(ip_address) ==
    IF ip_address = "10.0.0.5" THEN "10.0.0.0/24" ELSE NoEntity
get_email_domain(email) ==
    IF email = "bob@example.com" THEN "example.com" ELSE NoEntity

\* Database.get_registrations(start_time, end_time, ip_address) called as
\* get_registrations(entity_type, entity_value): the entity type arrives as
\* start_time and the value as end_time.  No record has a timestamp between
\* two strings (mongodb), and comparing a timestamp with a string raises
\* TypeError, which the method catches (file): it returns [] in both.
get_registrations(entity_type, entity_value) == << >>

\* _simulate_baseline_registrations: count random timestamps of the last 24 h,
\* sorted.  A draw d gives d.k timestamps spaced d.step seconds, the latest
\* d.a seconds ago, and count - d.k timestamps d.b seconds ago.
baseline_count == [ip |-> 5, subnet |-> 15, email_domain |-> 25]

simulate_baseline_registrations(entity_type, d, current_time) ==
    LET count == baseline_count[entity_type]
    IN [i \in 1 .. count |->
            IF i <= count - d.k THEN current_time - d.b
            ELSE current_time - (d.a + (count - i) * d.step)]

\* _get_registrations_by_entity
get_registrations_by_entity(entity_type, entity_value, d, current_time) ==
    LET registrations == get_registrations(entity_type, entity_value)
    IN IF registrations = << >>
         THEN simulate_baseline_registrations(entity_type, d, current_time)
       ELSE registrations

\* the draws of random.randint the model follows
DrawShapes ==
    [ip           |-> {<<0, 0>>, <<0, 15>>, <<0, 30>>, <<290, 10>>, <<590, 10>>},
     subnet       |-> {<<0, 0>>, <<0, 60>>, <<290, 10>>},
     email_domain |-> {<<0, 0>>, <<290, 5>>, <<3590, 5>>}]
DrawRecent ==
    [ip           |-> 0 .. 5,
     subnet       |-> {0, 6, 9, 15},
     email_domain |-> {0, 5, 6, 21, 25}]
DrawOld ==
    [ip           |-> {4000},
     subnet       |-> {4000, 86400},
     email_domain |-> {4000}]
NoDraw == [k |-> 0, a |-> 0, step |-> 0, b |-> 0]
Draws(entity_type) ==
    {[k |-> k, a |-> IF k = 0 THEN 0 ELSE sh[1],
      step |-> IF k <= 1 THEN 0 ELSE sh[2], b |-> b] :
        k \in DrawRecent[entity_type], sh \in DrawShapes[entity_type],
        b \in DrawOld[entity_type]}

Max(a, b) == IF a >= b THEN a ELSE b

\* sorted(), list.sort()
RECURSIVE sorted(_)
sorted(seq) ==
    IF Len(seq) <= 1 THEN seq
    ELSE LET rest == sorted(Tail(seq))
             x == Head(seq)
             lower == SelectSeq(rest, LAMBDA y : y < x)
             upper == SelectSeq(rest, LAMBDA y : y >= x)
         IN lower \o <<x>> \o upper

\* _calculate_velocities, one window: int(risk).  25 + 75 * (count/threshold
\* - 1) / 4 is (25 * threshold + 75 * count) / (4 * threshold); the double
\* evaluation truncates to the same integer for every count up to 25.
threshold_risk(count, threshold) ==
    IF count <= threshold THEN 0
    ELSE IF count >= 5 * threshold THEN 100
    ELSE (25 * threshold + 75 * count) \div (4 * threshold)

\* _calculate_velocities: the per-window entries and int(max_risk)
calculate_velocities(entity_type, registrations, current_time) ==
    LET window(w) ==
            LET count == Len(SelectSeq(registrations,
                                LAMBDA ts : current_time - ts <= time_windows[w]))
                threshold == thresholds[entity_type][w]
            IN [count |-> count, threshold |-> threshold,
                risk |-> threshold_risk(count, threshold)]
        velocities == [w \in WindowNames |-> window(w)]
    IN [velocities |-> velocities,
        risk |-> Max(velocities.short.risk,
                     Max(velocities.medium.risk, velocities.long.risk))]

\* _check_burst_pattern
check_burst_pattern(timestamps, current_time) ==
    LET recent_regs == sorted(SelectSeq(timestamps, LAMBDA ts : current_time - ts <= 10 * 60))
        n == Len(recent_regs)
        three == {i \in 1 .. n - 2 : recent_regs[i + 2] - recent_regs[i] <= 30}
        five == {i \in 1 .. n - 4 : recent_regs[i + 4] - recent_regs[i] <= 120}
        first(S) == CHOOSE i \in S : \A j \in S : i <= j
    IN IF n < 3 THEN None
       ELSE IF three # {}
         THEN [count |-> 3,
               seconds |-> recent_regs[first(three) + 2] - recent_regs[first(three)],
               timestamp |-> recent_regs[first(three)]]
       ELSE IF n >= 5 /\ five # {}
         THEN [count |-> 5,
               seconds |-> recent_regs[first(five) + 4] - recent_regs[first(five)],
               timestamp |-> recent_regs[first(five)]]
       ELSE None

\* Exact arithmetic beyond 32 bits: <<m, r>> is m * 10^6 + r, 0 <= r < 10^6.
BigNorm(m, r) == <<m + r \div 1000000, r % 1000000>>
BigSquare(x) ==
    LET p == x \div 1000
        q == x % 1000
    IN BigNorm(p * p, 2 * p * q * 1000 + q * q)
BigAdd(x, y) == BigNorm(x[1] + y[1], x[2] + y[2])
BigTimes(x, k) == BigNorm(x[1] * k + (x[2] * k) \div 1000000, (x[2] * k) % 1000000)
BigLess(x, y) == x[1] < y[1] \/ (x[1] = y[1] /\ x[2] < y[2])

RECURSIVE SumSeq(_)
SumSeq(seq) == IF seq = << >> THEN 0 ELSE Head(seq) + SumSeq(Tail(seq))
RECURSIVE SumSquares(_)
SumSquares(seq) ==
    IF seq = << >> THEN <<0, 0>>
    ELSE BigAdd(BigSquare(Head(seq)), SumSquares(Tail(seq)))

\* _check_cyclical_pattern.  With n intervals of sum S and sum of squares Q,
\* std_dev / avg_interval < 0.25 is 16 * n * Q < 17 * S^2.
check_cyclical_pattern(timestamps) ==
    IF Len(timestamps) < 5 THEN None
    ELSE LET sorted_ts == sorted(timestamps)
             intervals == [i \in 1 .. Len(sorted_ts) - 1 |-> sorted_ts[i + 1] - sorted_ts[i]]
             n == Len(intervals)
             S == SumSeq(intervals)
         IN IF n < 4 THEN None
            ELSE IF S > 0 /\ BigLess(BigTimes(SumSquares(intervals), 16 * n),
                                     BigTimes(BigSquare(S), 17))
              THEN [avg_interval_seconds |-> S \div n, count |-> n + 1]
            ELSE None

\* _check_distributed_pattern
check_distributed_pattern(subnet_regs, domain_regs) ==
    IF subnet_regs = << >> \/ domain_regs = << >> THEN None
    ELSE LET subnet_sorted == sorted(subnet_regs)
             domain_sorted == sorted(domain_regs)
             last_hour_subnet ==
                 SelectSeq(subnet_sorted,
                     LAMBDA ts : subnet_sorted[Len(subnet_sorted)] - ts <= 3600)
             last_hour_domain ==
                 SelectSeq(domain_sorted,
                     LAMBDA ts : domain_sorted[Len(domain_sorted)] - ts <= 3600)
         IN IF /\ Len(subnet_sorted) > 10 /\ Len(domain_sorted) > 10
               /\ Len(last_hour_subnet) > 5 /\ Len(last_hour_domain) > 5
              THEN [subnet_count |-> Len(last_hour_subnet),
                    domain_count |-> Len(last_hour_domain)]
            ELSE None

PatternNames == {"burst", "cyclical", "distributed"}

pattern_risk_scores_mut == [burst |-> 90, cyclical |-> 85, distributed |-> 80]

\* _check_velocity_patterns: risk_scores
pattern_risk_scores == [burst |-> 90, cyclical |-> 75, distributed |-> 80]

\* _check_velocity_patterns
check_velocity_patterns(ip_regs, subnet_regs, domain_regs, current_time) ==
    LET found == [burst |-> check_burst_pattern(ip_regs, current_time),
                  cyclical |-> check_cyclical_pattern(subnet_regs),
                  distributed |-> check_distributed_pattern(subnet_regs, domain_regs)]
        pattern_types == {p \in PatternNames : found[p] # None}
        most_severe == CHOOSE p \in pattern_types :
                          \A q \in pattern_types :
                              pattern_risk_scores[p] >= pattern_risk_scores[q]
    IN IF pattern_types = {} THEN None
       ELSE [status |-> most_severe,
             risk_score |-> pattern_risk_scores[most_severe],
             details |-> [p \in pattern_types |-> found[p]]]

\* AccountVelocityMonitor.check
check_result(ip_address, email, draws, current_time) ==
    LET email_domain == get_email_domain(email)
        subnet == get_subnet(ip_address)
        ip_registrations ==
            get_registrations_by_entity("ip", ip_address, draws.ip, current_time)
        subnet_registrations ==
            IF subnet # NoEntity
              THEN get_registrations_by_entity("subnet", subnet, draws.subnet, current_time)
            ELSE << >>
        domain_registrations ==
            IF email_domain # NoEntity
              THEN get_registrations_by_entity("email_domain", email_domain,
                                               draws.email_domain, current_time)
            ELSE << >>
        present == {"ip"} \cup (IF subnet # NoEntity THEN {"subnet"} ELSE {})
                          \cup (IF email_domain # NoEntity THEN {"email_domain"} ELSE {})
        regs == [ip |-> ip_registrations, subnet |-> subnet_registrations,
                 email_domain |-> domain_registrations]
        calc == [e \in present |-> calculate_velocities(e, regs[e], current_time)]
        velocities == [e \in present |-> calc[e].velocities]
        risk_scores == {calc[e].risk : e \in present} \ {0}
        threshold_score ==
            IF risk_scores = {} THEN 0
            ELSE CHOOSE r \in risk_scores : \A r2 \in risk_scores : r >= r2
        threshold_status ==
            IF threshold_score >= 80 THEN "high_velocity"
            ELSE IF threshold_score >= 50 THEN "elevated_velocity"
            ELSE "normal_velocity"
        patterns == check_velocity_patterns(ip_registrations, subnet_registrations,
                                            domain_registrations, current_time)
        override == patterns # None /\ patterns.risk_score > threshold_score
    IN [risk_score |-> IF override THEN patterns.risk_score ELSE threshold_score,
        status |-> IF override THEN patterns.status \o "_pattern" ELSE threshold_status,
        velocities |-> velocities,
        patterns |-> IF patterns # None THEN patterns.details ELSE None]

AccountVelocityMonitor_check ==
    /\ vel_in # None
    /\ vel_result = None
    /\ vel_result' = check_result(vel_in.ip_address, vel_in.email, vel_in.draws, now)
    /\ UNCHANGED <<request, response, last_login, geo_call, now, vel_in,
                   failed_logins, recorded, pwd_call, sessVars, devVars, logins, geo_calls_done, restVars>>

(***************************************************************************)
(* Password attack detector                                                *)
(***************************************************************************)

pwd_thresholds_mut ==
    [bruteforce          |-> [attempts |-> 5, window_minutes |-> 10, risk_score |-> 85],
     credential_stuffing |-> [user_count |-> 10, ip_count |-> 3,
                              window_minutes |-> 30, risk_score |-> 80],
     password_spraying   |-> [user_count |-> 10, ip_count |-> 1,
                              window_minutes |-> 60, risk_score |-> 90],
     generic_attack      |-> [attempts |-> 15, window_minutes |-> 60, risk_score |-> 75]]

\* PasswordAttackDetector.__init__: thresholds
pwd_thresholds ==
    [bruteforce          |-> [attempts |-> 5, window_minutes |-> 10, risk_score |-> 85],
     credential_stuffing |-> [user_count |-> 10, ip_count |-> 3,
                              window_minutes |-> 30, risk_score |-> 90],
     password_spraying   |-> [user_count |-> 10, ip_count |-> 1,
                              window_minutes |-> 60, risk_score |-> 80],
     generic_attack      |-> [attempts |-> 15, window_minutes |-> 60, risk_score |-> 75]]

\* Victim is the account under attack; the first 10 of OtherUsers are accounts
\* tried from ip1, the last 10 accounts tried from the addresses of SprayIPs.
Victim == "victim"
OtherUsers == <<"u01", "u02", "u03", "u04", "u05", "u06", "u07", "u08", "u09", "u10",
                "u11", "u12", "u13", "u14", "u15", "u16", "u17", "u18", "u19", "u20">>
PwdIPs == {"ip1", "ip2"}
SprayIPs == <<"ip3", "ip4", "ip5", "ip6">>

\* Database.record_failed_login: append {username, ip_address, now}
record_failed_login_store(store, username, ip_address, timestamp) ==
    Append(store, [username |-> username, ip_address |-> ip_address,
                   timestamp |-> timestamp])

\* Database.get_recent_failed_logins; AnyUser / AnyIP stand for an absent filter
AnyUser == "any_user"
AnyIP == "any"
get_recent_failed_logins(store, username, ip_address, minutes, current_time) ==
    LET cutoff_time == current_time - minutes * 60
    IN SelectSeq(store, LAMBDA f :
            /\ f.timestamp > cutoff_time
            /\ (username = AnyUser \/ f.username = username)
            /\ (ip_address = AnyIP \/ f.ip_address = ip_address))

\* now - f['timestamp'] <= window_seconds, now = time.time() a float: the
\* clock reads current_time + fraction, and subsecond says the fraction is not 0
InWindow(timestamp, window_seconds, current_time, subsecond) ==
    IF subsecond THEN current_time - timestamp < window_seconds
    ELSE current_time - timestamp <= window_seconds

Range(seq) == {seq[i] : i \in DOMAIN seq}

detect_brute_force_mut(user_id, ip_address, user_failures, current_time, subsecond) ==
    LET threshold == pwd_thresholds.bruteforce
        ip_failures_for_user ==
            SelectSeq(user_failures, LAMBDA f :
                InWindow(f.timestamp, threshold.window_minutes * 60, current_time, subsecond))
        detected == Len(ip_failures_for_user) >= threshold.attempts
    IN [type |-> "bruteforce", detected |-> detected,
        risk_score |-> IF detected THEN threshold.risk_score ELSE 0]

\* _detect_brute_force
detect_brute_force(user_id, ip_address, user_failures, current_time, subsecond) ==
    LET threshold == pwd_thresholds.bruteforce
        ip_failures_for_user ==
            SelectSeq(user_failures, LAMBDA f :
                /\ f.ip_address = ip_address
                /\ InWindow(f.timestamp, threshold.window_minutes * 60, current_time, subsecond))
        detected == Len(ip_failures_for_user) >= threshold.attempts
    IN [type |-> "bruteforce", detected |-> detected,
        risk_score |-> IF detected THEN threshold.risk_score ELSE 0]

\* _detect_credential_stuffing
detect_credential_stuffing(ip_address, all_failures, current_time, subsecond) ==
    LET threshold == pwd_thresholds.credential_stuffing
        recent_ip_failures ==
            SelectSeq(all_failures, LAMBDA f :
                /\ f.ip_address = ip_address
                /\ InWindow(f.timestamp, threshold.window_minutes * 60, current_time, subsecond))
        unique_users == {f.username : f \in Range(recent_ip_failures)}
        detected == Cardinality(unique_users) >= threshold.user_count
    IN [type |-> "credential_stuffing", detected |-> detected,
        risk_score |-> IF detected THEN threshold.risk_score ELSE 0]

detect_password_spraying_mut(all_failures, current_time, subsecond) ==
    LET threshold == pwd_thresholds.password_spraying
        recent_failures ==
            SelectSeq(all_failures, LAMBDA f :
                InWindow(f.timestamp, threshold.window_minutes * 60, current_time, subsecond))
        unique_users == {f.username : f \in Range(recent_failures)}
        unique_ips == {f.ip_address : f \in Range(recent_failures)}
        detected == /\ Cardinality(unique_users) >= threshold.user_count
                    /\ Cardinality(unique_ips) <= threshold.ip_count
    IN [type |-> "password_spraying", detected |-> detected,
        risk_score |-> IF detected THEN threshold.risk_score ELSE 0]

\* _detect_password_spraying
detect_password_spraying(all_failures, current_time, subsecond) ==
    LET threshold == pwd_thresholds.password_spraying
        recent_failures ==
            SelectSeq(all_failures, LAMBDA f :
                InWindow(f.timestamp, threshold.window_minutes * 60, current_time, subsecond))
        unique_users == {f.username : f \in Range(recent_failures)}
        unique_ips == {f.ip_address : f \in Range(recent_failures)}
        detected == /\ Cardinality(unique_users) >= threshold.user_count
                    /\ Cardinality(unique_ips) <= threshold.ip_count * 3
    IN [type |-> "password_spraying", detected |-> detected,
        risk_score |-> IF detected THEN threshold.risk_score ELSE 0]

\* round(x, 2) of x = n/d, in hundredths
round2(n, d) ==
    IF n >= 0 THEN py_round(100 * n, d) ELSE 0 - py_round(100 * (0 - n), d)

\* _calculate_attack_metrics: (velocity, acceleration), in hundredths
calculate_attack_metrics(failures) ==
    IF Len(failures) < 3 THEN <<0, 0>>
    ELSE LET timestamps == sorted([i \in DOMAIN failures |-> failures[i].timestamp])
             time_diffs == [i \in 1 .. Len(timestamps) - 1 |->
                               timestamps[i + 1] - timestamps[i]]
             total_time == timestamps[Len(timestamps)] - timestamps[1]
             half == Len(time_diffs) \div 2
             first_half == SubSeq(time_diffs, 1, half)
             second_half == SubSeq(time_diffs, half + 1, Len(time_diffs))
             s1 == SumSeq(first_half)
             s2 == SumSeq(second_half)
             \* velocity1 = n1/d1, velocity2 = n2/d2
             n1 == IF s1 > 0 THEN Len(first_half) * 60 ELSE 0
             d1 == IF s1 > 0 THEN s1 ELSE 1
             n2 == IF s2 > 0 THEN Len(second_half) * 60 ELSE 0
             d2 == IF s2 > 0 THEN s2 ELSE 1
         IN <<IF total_time > 0 THEN round2((Len(failures) - 1) * 60, total_time) ELSE 0,
              round2(n2 * d1 - n1 * d2, d1 * d2)>>

\* PasswordAttackDetector.detect, lines 57-74: the three fetches and the
\* three classifiers
classify(store, user_id, ip_address, current_time, subsecond) ==
    LET minutes == pwd_thresholds.generic_attack.window_minutes
        user_failures == get_recent_failed_logins(store, user_id, AnyIP, minutes, current_time)
        ip_failures == get_recent_failed_logins(store, AnyUser, ip_address, minutes, current_time)
        all_recent_failures == get_recent_failed_logins(store, AnyUser, AnyIP, minutes, current_time)
    IN [user_failures |-> user_failures,
        ip_failures |-> ip_failures,
        brute_force |->
            detect_brute_force(user_id, ip_address, user_failures, current_time, subsecond),
        credential_stuffing |->
            detect_credential_stuffing(ip_address, all_recent_failures, current_time, subsecond),
        password_spraying |->
            detect_password_spraying(all_recent_failures, current_time, subsecond)]

\* PasswordAttackDetector.detect, lines 76-119: the result
password_detect(store, user_id, ip_address, current_time, subsecond) ==
    LET c == classify(store, user_id, ip_address, current_time, subsecond)
        attacks == {a \in {c.brute_force, c.credential_stuffing, c.password_spraying} :
                        a.detected}
        most_severe == CHOOSE a \in attacks : \A b \in attacks : a.risk_score >= b.risk_score
        metrics == calculate_attack_metrics(c.ip_failures)
    IN IF attacks = {}
         THEN [risk_score |-> 0, attack_detected |-> FALSE, attack_type |-> "None",
               user_failures_count |-> Len(c.user_failures),
               ip_failures_count |-> Len(c.ip_failures)]
       ELSE [risk_score |-> most_severe.risk_score, attack_detected |-> TRUE,
             attack_type |-> most_severe.type,
             attack_details |->
                 [user_failures_count |-> Len(c.user_failures),
                  ip_failures_count |-> Len(c.ip_failures),
                  velocity |-> metrics[1], acceleration |-> metrics[2]]]

MaxRecorded == 1

\* a failed authentication: Database.record_failed_login(username, ip_address)
record_failed_login ==
    /\ recorded < MaxRecorded
    /\ \E ip \in PwdIPs :
          failed_logins' = record_failed_login_store(failed_logins, Victim, ip, now)
    /\ recorded' = recorded + 1
    /\ UNCHANGED <<request, response, last_login, geo_call, now, vel_in, vel_result, pwd_call, sessVars, devVars, logins, geo_calls_done, restVars>>

PasswordAttackDetector_detect ==
    /\ pwd_call = None
    /\ \E user_id \in {Victim, OtherUsers[1]}, ip_address \in PwdIPs, subsecond \in BOOLEAN :
          pwd_call' = [user_id |-> user_id, ip_address |-> ip_address,
                       subsecond |-> subsecond, failures |-> failed_logins,
                       triggered |->
                           LET c == classify(failed_logins, user_id, ip_address,
                                             now, subsecond)
                           IN [bruteforce |-> c.brute_force.detected,
                               credential_stuffing |-> c.credential_stuffing.detected,
                               password_spraying |-> c.password_spraying.detected],
                       result |-> password_detect(failed_logins, user_id, ip_address,
                                                  now, subsecond)]
    /\ UNCHANGED <<request, response, last_login, geo_call, now, vel_in, vel_result,
                   failed_logins, recorded, sessVars, devVars, logins, geo_calls_done, restVars>>

\* The failed logins already in the store when the model starts:
\*   pair    n failures of (Victim, ip1), the latest a seconds ago, step apart
\*   other   5 failures of Victim from ip2, 30 s ago (or none)
\*   stuff   the first n of OtherUsers failing once from ip1, age seconds ago
\*   spray   n of the last 10 of OtherUsers failing once, age seconds ago, from the first
\*           ips addresses of SprayIPs in turn
PairShapes == {<<0, 0>>, <<60, 120>>, <<120, 115>>, <<580, 5>>, <<590, 5>>}
PairCounts == {0, 3, 4, 5, 6}
StuffCounts == {0, 9, 10}
StuffAges == {100, 1800, 1801}
SprayShapes == {<<0, 1, 100>>, <<9, 1, 100>>, <<10, 1, 100>>, <<10, 3, 100>>, <<10, 4, 100>>,
                <<10, 3, 3599>>, <<10, 3, 3600>>}

StoreOf(pair, other, stuff, spray, t) ==
    [j \in 1 .. pair.n |->
        [username |-> Victim, ip_address |-> "ip1",
         timestamp |-> t - (pair.a + (j - 1) * pair.step)]]
    \o [j \in 1 .. other |->
        [username |-> Victim, ip_address |-> "ip2", timestamp |-> t - 30]]
    \o [j \in 1 .. stuff.n |->
        [username |-> OtherUsers[j], ip_address |-> "ip1", timestamp |-> t - stuff.age]]
    \o [j \in 1 .. spray.n |->
        [username |-> OtherUsers[10 + j], ip_address |-> SprayIPs[((j - 1) % spray.ips) + 1],
         timestamp |-> t - spray.age]]

InitialStores(t) ==
    {StoreOf([n |-> n, a |-> IF n = 0 THEN 0 ELSE sh[1], step |-> IF n = 0 THEN 0 ELSE sh[2]],
             other,
             [n |-> sn, age |-> IF sn = 0 THEN 0 ELSE sa],
             [n |-> sp[1], ips |-> sp[2], age |-> sp[3]], t) :
        n \in PairCounts, sh \in PairShapes, other \in {0, 5},
        sn \in StuffCounts, sa \in StuffAges, sp \in SprayShapes}

(***************************************************************************)
(* Session anomaly detector                                                *)
(*                                                                         *)
(* A probability row of a transition matrix is kept exactly: the columns   *)
(* present with their numerators over one denominator.  Anomaly scores and *)
(* rolling averages are exact fractions.                                   *)
(***************************************************************************)

Row(den, num) == [den |-> den, num |-> num]
Frac(n, d) == [num |-> n, den |-> d]
FracLess(a, b) == a.num * b.den < b.num * a.den
FracEq(a, b) == a.num * b.den = b.num * a.den
\* max() of a non-empty set of fractions
FracMax(S) == CHOOSE a \in S : \A b \in S : ~FracLess(a, b)

RECURSIVE GCD(_, _)
GCD(a, b) == IF b = 0 THEN a ELSE GCD(b, a % b)
Reduced(f) == LET g == GCD(f.num, f.den) IN Frac(f.num \div g, f.den \div g)
RECURSIVE GCDOver(_, _)
GCDOver(f, S) ==
    IF S = {} THEN 0
    ELSE LET x == CHOOSE x \in S : TRUE IN GCD(f[x], GCDOver(f, S \ {x}))

\* SessionAnomalyDetector.__init__: default_transitions
DefaultTransitions ==
    [login |-> Row(10, [view_dashboard |-> 6, view_profile |-> 3, view_settings |-> 1]),
     view_dashboard |-> Row(10, [view_account |-> 4, view_transactions |-> 3,
                                 logout |-> 2, view_profile |-> 1]),
     view_account |-> Row(10, [view_transactions |-> 5, view_dashboard |-> 3, logout |-> 2]),
     view_transactions |-> Row(10, [view_dashboard |-> 4, view_account |-> 3, logout |-> 3]),
     view_profile |-> Row(10, [view_dashboard |-> 5, edit_profile |-> 3, logout |-> 2]),
     edit_profile |-> Row(10, [view_profile |-> 7, view_dashboard |-> 2, logout |-> 1]),
     view_settings |-> Row(10, [view_dashboard |-> 5, edit_settings |-> 3, logout |-> 2]),
     edit_settings |-> Row(10, [view_settings |-> 7, view_dashboard |-> 2, logout |-> 1])]

\* SessionAnomalyDetector.__init__: suspicious_activities
suspicious_activities ==
    [change_email |-> 15, change_password |-> 10, add_payment_method |-> 20,
     large_transaction |-> 25, export_data |-> 15, delete_account |-> 30,
     multiple_failed_payments |-> 20, api_access |-> 10,
     change_security_questions |-> 20, disable_2fa |-> 30]

time_thresholds_mut ==
    [min_time_between_actions |-> 2, max_time_for_sequence |-> 1800,
     typical_session_length |-> 900]

\* SessionAnomalyDetector.__init__: time_thresholds
time_thresholds ==
    [min_time_between_actions |-> 1, max_time_for_sequence |-> 1800,
     typical_session_length |-> 900]

\* sorted(session_events, key=timestamp): stable
RECURSIVE sort_events(_)
sort_events(events) ==
    IF events = << >> THEN << >>
    ELSE LET rest == sort_events(SubSeq(events, 1, Len(events) - 1))
             last == events[Len(events)]
             k == Cardinality({i \in DOMAIN rest : rest[i].timestamp <= last.timestamp})
         IN SubSeq(rest, 1, k) \o <<last>> \o SubSeq(rest, k + 1, Len(rest))

event_types_of(events) == [i \in DOMAIN events |-> events[i].type]
time_diffs_of(events) ==
    [i \in 1 .. Len(events) - 1 |-> events[i + 1].timestamp - events[i].timestamp]

\* _get_user_model: the stored model, or a new one over the default rows
new_user_model(defaults) ==
    [transitions |-> defaults,
     avg_session_length |-> Frac(time_thresholds.typical_session_length, 1),
     avg_time_between_actions |-> Frac(30, 1),
     common_actions |-> << >>,
     session_count |-> 0]

get_user_model(stored, defaults) ==
    IF stored = None THEN new_user_model(defaults) ELSE stored

\* _check_timing_anomalies
check_timing_anomalies(events) ==
    LET diffs == time_diffs_of(events)
        too_fast == \E i \in DOMAIN diffs : diffs[i] < time_thresholds.min_time_between_actions
        long_gap == \E i \in DOMAIN diffs :
                        /\ diffs[i] >= time_thresholds.min_time_between_actions
                        /\ diffs[i] > time_thresholds.max_time_for_sequence
        session_length == events[Len(events)].timestamp - events[1].timestamp
        long_session == session_length > 5 * time_thresholds.typical_session_length
    IN [detected |-> too_fast \/ long_gap \/ long_session,
        score |-> FracMax({Frac(0, 1)}
                          \cup (IF too_fast THEN {Frac(8, 10)} ELSE {})
                          \cup (IF long_gap THEN {Frac(6, 10)} ELSE {})
                          \cup (IF long_session THEN {Frac(5, 10)} ELSE {}))]

\* _check_unusual_patterns: the kinds of pattern found
check_unusual_patterns(event_types) ==
    LET n == Len(event_types)
        first10 == {event_types[i] : i \in 1 .. (IF n < 10 THEN n ELSE 10)}
    IN (IF \E i \in 1 .. n - 3 :
              /\ event_types[i] = event_types[i + 1]
              /\ event_types[i + 1] = event_types[i + 2]
              /\ event_types[i + 2] = event_types[i + 3]
        THEN {"repeated_action"} ELSE {})
       \cup
       (IF \E i \in 1 .. n - 5 :
              /\ event_types[i] = event_types[i + 2]
              /\ event_types[i + 2] = event_types[i + 4]
              /\ event_types[i + 1] = event_types[i + 3]
              /\ event_types[i + 3] = event_types[i + 5]
              /\ event_types[i] # event_types[i + 1]
        THEN {"cyclic_pattern"} ELSE {})
       \cup
       (IF Cardinality(first10) >= 7 /\ n >= 10 THEN {"rapid_navigation"} ELSE {})

KnownTransition(transitions, prev_type, current_type) ==
    /\ prev_type \in DOMAIN transitions
    /\ current_type \in DOMAIN transitions[prev_type].num

unknown_transition_score_mut == Frac(6, 10)

\* _check_sequence_anomalies, line 285: a transition the matrix does not hold
unknown_transition_score == Frac(7, 10)

\* _check_sequence_anomalies
check_sequence_anomalies(events, transitions) ==
    LET event_types == event_types_of(events)
        steps == 2 .. Len(event_types)
        unlikely(i) ==
            /\ KnownTransition(transitions, event_types[i - 1], event_types[i])
            /\ LET row == transitions[event_types[i - 1]]
               IN 20 * row.num[event_types[i]] < row.den
        unknown(i) == ~KnownTransition(transitions, event_types[i - 1], event_types[i])
        \* 1 - probability / 0.05
        step_score(i) ==
            IF unknown(i) THEN unknown_transition_score
            ELSE IF unlikely(i)
              THEN LET row == transitions[event_types[i - 1]]
                   IN Reduced(Frac(row.den - 20 * row.num[event_types[i]], row.den))
            ELSE Frac(0, 1)
        patterns == check_unusual_patterns(event_types)
    IN [detected |-> (\E i \in steps : unknown(i) \/ unlikely(i)) \/ patterns # {},
        score |-> FracMax({Frac(0, 1)}
                          \cup {step_score(i) : i \in steps}
                          \cup (IF patterns # {} THEN {Frac(8, 10)} ELSE {}))]

\* _check_activity_anomalies
check_activity_anomalies(events) ==
    LET suspicious == {i \in DOMAIN events : events[i].type \in DOMAIN suspicious_activities}
        suspicious_count == Cardinality(suspicious)
    IN [detected |-> suspicious # {},
        score |-> FracMax({Frac(0, 1)}
                          \cup {Frac(suspicious_activities[events[i].type], 30) : i \in suspicious}
                          \cup (IF suspicious_count >= 3 THEN {Frac(9, 10)}
                                ELSE IF suspicious_count >= 2 THEN {Frac(7, 10)}
                                ELSE {}))]

calculate_risk_score_mut(anomaly_score) ==
    IF 5 * anomaly_score.num < anomaly_score.den THEN 0
    ELSE LET scaled == (2 * (125 * anomaly_score.num - 25 * anomaly_score.den)
                            + anomaly_score.den) \div (2 * anomaly_score.den)
         IN IF scaled > 100 THEN 100 ELSE IF scaled < 0 THEN 0 ELSE scaled

\* _calculate_risk_score: int((anomaly_score - 0.2) / 0.8 * 100) within 0..100.
\* In binary floating point (0.6 - 0.2) / 0.8 * 100 is 49.99999999999999,
\* which int() truncates to 49.
calculate_risk_score(anomaly_score) ==
    IF 5 * anomaly_score.num < anomaly_score.den THEN 0
    ELSE IF FracEq(anomaly_score, Frac(6, 10)) THEN 49
    ELSE LET scaled == (125 * anomaly_score.num - 25 * anomaly_score.den)
                           \div anomaly_score.den
         IN IF scaled > 100 THEN 100 ELSE IF scaled < 0 THEN 0 ELSE scaled

update_row_mut(row, current_type) ==
    LET cols == DOMAIN row.num \cup {current_type}
    IN Row(10 * row.den,
           [c \in cols |->
               10 * (IF c \in DOMAIN row.num THEN row.num[c] ELSE 0)
               + (IF c = current_type THEN row.den ELSE 0)])

\* _update_user_model, lines 447-453: add 0.1 to the transition, then divide
\* the row by its total (the row is kept in lowest terms)
update_row(row, current_type) ==
    LET cols == DOMAIN row.num \cup {current_type}
        plus == [c \in cols |->
                    10 * (IF c \in DOMAIN row.num THEN row.num[c] ELSE 0)
                    + (IF c = current_type THEN row.den ELSE 0)]
        g == GCDOver(plus, cols)
    IN Row(SumOver(plus, cols) \div g, [c \in cols |-> plus[c] \div g])

EmptyRow == Row(1, [c \in {} |-> 0])

\* _update_user_model, lines 439-453: the loop over the transitions of the session
RECURSIVE update_transitions(_, _, _)
update_transitions(transitions, event_types, i) ==
    IF i > Len(event_types) THEN transitions
    ELSE LET prev_type == event_types[i - 1]
             row == IF prev_type \in DOMAIN transitions THEN transitions[prev_type]
                    ELSE EmptyRow
             updated == update_row(row, event_types[i])
         IN update_transitions(
                [r \in DOMAIN transitions \cup {prev_type} |->
                    IF r = prev_type THEN updated ELSE transitions[r]],
                event_types, i + 1)

\* first occurrences, in order (the insertion order of a dict)
RECURSIVE first_occurrences(_)
first_occurrences(seq) ==
    IF seq = << >> THEN << >>
    ELSE LET rest == first_occurrences(SubSeq(seq, 1, Len(seq) - 1))
             last == seq[Len(seq)]
         IN IF \E i \in DOMAIN rest : rest[i] = last THEN rest ELSE Append(rest, last)

Occurrences(seq, x) == Cardinality({i \in DOMAIN seq : seq[i] = x})

\* sorted(action_counts.items(), key=count, reverse=True): stable
RECURSIVE sort_by_count(_, _, _)
sort_by_count(actions, current_common, new_actions) ==
    IF actions = << >> THEN << >>
    ELSE LET count(a) == 2 * Occurrences(current_common, a) + Occurrences(new_actions, a)
             rest == sort_by_count(SubSeq(actions, 1, Len(actions) - 1),
                                   current_common, new_actions)
             last == actions[Len(actions)]
             k == Cardinality({i \in DOMAIN rest : count(rest[i]) >= count(last)})
         IN SubSeq(rest, 1, k) \o <<last>> \o SubSeq(rest, k + 1, Len(rest))

\* _update_common_actions
update_common_actions(current_common, new_actions) ==
    LET ranked == sort_by_count(first_occurrences(current_common \o new_actions),
                                current_common, new_actions)
    IN SubSeq(ranked, 1, IF Len(ranked) < 10 THEN Len(ranked) ELSE 10)

\* _update_user_model: the model written to the store
updated_user_model(events, current_model, current_time) ==
    LET event_types == event_types_of(events)
        session_length == events[Len(events)].timestamp - events[1].timestamp
        diffs == time_diffs_of(events)
        kept == SelectSeq(diffs, LAMBDA d :
                    d > 0 /\ d < time_thresholds.max_time_for_sequence)
        avg_time_diff == IF kept = << >> THEN Frac(30, 1) ELSE Frac(SumSeq(kept), Len(kept))
        old_length == current_model.avg_session_length
        old_diff == current_model.avg_time_between_actions
    IN [transitions |-> update_transitions(current_model.transitions, event_types, 2),
        \* alpha * old + (1 - alpha) * new, alpha = 0.8
        avg_session_length |->
            Reduced(Frac(4 * old_length.num + session_length * old_length.den,
                         5 * old_length.den)),
        avg_time_between_actions |->
            Reduced(Frac(4 * old_diff.num * avg_time_diff.den
                            + avg_time_diff.num * old_diff.den,
                         5 * old_diff.den * avg_time_diff.den)),
        common_actions |-> update_common_actions(current_model.common_actions, event_types),
        session_count |-> current_model.session_count + 1,
        last_updated |-> current_time,
        updated_at |-> current_time]

ShouldLearn_mut(combined_score) == ~FracLess(Frac(7, 10), combined_score)

\* detect, line 122: combined_score < 0.7
ShouldLearn(combined_score) == FracLess(combined_score, Frac(7, 10))

\* SessionAnomalyDetector.detect: result, the user's stored model after the
\* call and default_transitions after the call
session_detect(stored, defaults, session_events, current_time) ==
    IF Len(session_events) < 2
      THEN [result |-> [risk_score |-> 0, status |-> "insufficient_data"],
            combined |-> Frac(0, 1), stored |-> stored, defaults |-> defaults]
    ELSE LET sorted_events == sort_events(session_events)
             user_model == get_user_model(stored, defaults)
             timing == check_timing_anomalies(sorted_events)
             sequence == check_sequence_anomalies(sorted_events, user_model.transitions)
             activity == check_activity_anomalies(sorted_events)
             combined_score == FracMax({timing.score, sequence.score, activity.score})
             risk_score == calculate_risk_score(combined_score)
             status == IF risk_score >= 80 THEN "high_risk_behavior"
                       ELSE IF risk_score >= 50 THEN "suspicious_behavior"
                       ELSE "normal_behavior"
             updated == updated_user_model(sorted_events, user_model, current_time)
         IN [result |-> [risk_score |-> risk_score, status |-> status,
                         anomalies |->
                             (IF timing.detected THEN {"timing"} ELSE {})
                             \cup (IF sequence.detected THEN {"sequence"} ELSE {})
                             \cup (IF activity.detected THEN {"activities"} ELSE {}),
                         events_analyzed |-> Len(sorted_events)],
             combined |-> combined_score,
             stored |-> IF ShouldLearn(combined_score) THEN updated ELSE stored,
             \* a new user's model holds the rows of default_transitions
             \* themselves (dict.copy() is shallow), so the update writes them
             defaults |->
                 IF ShouldLearn(combined_score) /\ stored = None
                   THEN [r \in DOMAIN defaults |-> updated.transitions[r]]
                 ELSE defaults]

SessUsers == {"u1", "u2"}

\* a stored model as mongodb_test_data.generate_user_model builds it: the
\* page rows with perturbed probabilities, each row normalised
GeneratedModel ==
    [transitions |->
        [r \in DOMAIN DefaultTransitions |->
            CASE r = "login" ->
                    Row(100, [view_dashboard |-> 70, view_profile |-> 28, view_settings |-> 2])
              [] r = "view_dashboard" ->
                    Row(1000, [view_account |-> 500, view_transactions |-> 449,
                               logout |-> 50, view_profile |-> 1])
              [] OTHER -> DefaultTransitions[r]],
     avg_session_length |-> Frac(600, 1),
     avg_time_between_actions |-> Frac(45, 1),
     common_actions |-> <<"view_dashboard", "view_account", "view_transactions">>,
     session_count |-> 5,
     last_updated |-> T0 - 86400]

\* the sessions submitted: event types, with the seconds between consecutive
\* events (first position: offset of the first event)
Types == [normal2 |-> <<"login", "view_dashboard">>,
          normal5 |-> <<"login", "view_dashboard", "view_account", "view_transactions",
                        "logout">>,
          boundary |-> <<"login", "view_dashboard", "logout">>,
          rare |-> <<"login", "view_settings", "view_dashboard", "view_profile">>,
          cyclic |-> <<"view_dashboard", "view_account", "view_dashboard", "view_account",
                       "view_dashboard", "view_account">>,
          rapid |-> <<"login", "view_settings", "edit_settings", "view_settings",
                      "edit_settings", "view_dashboard", "view_profile", "edit_profile",
                      "view_dashboard", "view_account">>,
          repeated |-> <<"view_dashboard", "view_dashboard", "view_dashboard",
                         "view_dashboard">>,
          unknown |-> <<"login", "logout">>,
          sensitive3 |-> <<"disable_2fa", "change_email", "export_data">>,
          sensitive3low |-> <<"change_email", "export_data", "api_access">>,
          sensitive2 |-> <<"change_email", "export_data">>,
          single |-> <<"login">>,
          empty |-> << >>]

Even(n, gap) == [i \in 1 .. n |-> IF i = 1 THEN 0 ELSE gap]

Sessions ==
    {[types |-> Types[k], gaps |-> Even(Len(Types[k]), 10)] : k \in DOMAIN Types}
    \cup {[types |-> Types.normal2, gaps |-> <<0, g>>] : g \in {0, 1, 1800, 1801}}
    \cup {[types |-> Types.normal5, gaps |-> <<0, 1500, 1500, 1500, d>>] : d \in {-4400, 0, 1}}

\* the events of a session: timestamps accumulate the gaps from T0 (a
\* negative gap puts an event out of order in the list submitted)
RECURSIVE timestamps_of(_, _)
timestamps_of(gaps, i) == IF i = 0 THEN T0 ELSE timestamps_of(gaps, i - 1) + gaps[i]

events_of(session) ==
    [i \in DOMAIN session.types |->
        [type |-> session.types[i], timestamp |-> timestamps_of(session.gaps, i)]]

MaxSessions == 2

SessionAnomalyDetector_detect ==
    /\ sessions_done < MaxSessions
    /\ \E user_id \in SessUsers, session \in Sessions :
          LET out == session_detect(user_models[user_id], default_transitions,
                                    events_of(session), now)
          IN /\ user_models' = [user_models EXCEPT ![user_id] = out.stored]
             /\ default_transitions' = out.defaults
             /\ sess_call' = [user_id |-> user_id, events |-> events_of(session),
                              stored_before |-> user_models[user_id],
                              transitions_used |->
                                  get_user_model(user_models[user_id],
                                                 default_transitions).transitions,
                              combined |-> out.combined, result |-> out.result]
    /\ sessions_done' = sessions_done + 1
    /\ UNCHANGED <<request, response, last_login, geo_call, now, vel_in, vel_result,
                   failed_logins, recorded, pwd_call, devVars, logins, geo_calls_done, restVars>>

(***************************************************************************)
(* Device fingerprinter                                                    *)
(*                                                                         *)
(* A dict is a function from the keys present to their values.  The model  *)
(* is the file storage (DB_TYPE unset); with MongoDB the device record     *)
(* written is the same.                                                    *)
(***************************************************************************)

\* dict.get(key, default)
Get(dict, key, default) == IF key \in DOMAIN dict THEN dict[key] ELSE default

\* dict[key] = value
Put(dict, key, value) ==
    [k \in DOMAIN dict \cup {key} |-> IF k = key THEN value ELSE dict[k]]

\* word in user_agent.lower()
UaContains(user_agent, word) ==
    CASE user_agent = "Mozilla/5.0 (X11; Linux) Firefox/120" -> FALSE
      [] user_agent = "Mozilla/5.0 (Windows) HeadlessChrome/119" -> word \in {"chrome"}
      [] user_agent = "Mozilla/5.0 (Linux; Android 13) Mobile Chrome/119"
           -> word \in {"chrome", "mobile", "android"}
      [] OTHER -> FALSE

Firefox == "Mozilla/5.0 (X11; Linux) Firefox/120"
HeadlessChrome == "Mozilla/5.0 (Windows) HeadlessChrome/119"
MobileChrome == "Mozilla/5.0 (Linux; Android 13) Mobile Chrome/119"

\* the fingerprints submitted.  webgl.is_dict is FALSE for a fingerprint
\* whose webgl entry is not an object.
CleanFingerprint ==
    [hash |-> "dev1", userAgent |-> Firefox, language |-> "en",
     screen |-> [width |-> 1920, height |-> 1080], timezone |-> [offset |-> 0],
     plugins |-> 2, canvasHash |-> "c1",
     webgl |-> [is_dict |-> TRUE, supported |-> TRUE, renderer |-> "mesa"],
     audio |-> [supported |-> TRUE]]

Fingerprints ==
    {CleanFingerprint,
     \* the same device, another canvas
     [CleanFingerprint EXCEPT !.canvasHash = "c2"],
     \* a second device, reporting an inconsistency
     Put([CleanFingerprint EXCEPT !.hash = "dev2"], "inconsistencies",
         <<"mobile_mismatch">>),
     \* no hash: the device id is generated
     [k \in DOMAIN CleanFingerprint \ {"hash", "audio"} |-> CleanFingerprint[k]],
     \* a headless browser
     [hash |-> "dev1", userAgent |-> HeadlessChrome, webdriver |-> TRUE,
      screen |-> [width |-> 1024, height |-> 768], plugins |-> 0,
      canvasSupported |-> FALSE,
      webgl |-> [is_dict |-> TRUE, supported |-> FALSE, renderer |-> ""]],
     \* a phone that reports a desktop GPU
     [hash |-> "dev2", userAgent |-> MobileChrome, language |-> "en",
      screen |-> [width |-> 400, height |-> 800], timezone |-> [offset |-> 60],
      plugins |-> 0, canvasHash |-> "c3",
      webgl |-> [is_dict |-> TRUE, supported |-> TRUE, renderer |-> "nvidia geforce"],
      audio |-> [supported |-> FALSE]],
     \* webgl is a string
     [CleanFingerprint EXCEPT !.webgl = [is_dict |-> FALSE, supported |-> FALSE,
                                         renderer |-> ""]],
     \* an empty dict
     [k \in {} |-> 0]}

\* _generate_device_id: the SHA-256 of the stable properties
generate_device_id(fingerprint_data) ==
    [sha256 |->
        [k \in DOMAIN fingerprint_data
                \cap {"userAgent", "screen", "language", "timezone", "canvasHash"}
            |-> IF k = "timezone" THEN fingerprint_data[k].offset ELSE fingerprint_data[k]],
     webgl |-> IF "webgl" \in DOMAIN fingerprint_data /\ fingerprint_data.webgl.supported
                 THEN fingerprint_data.webgl.renderer ELSE ""]

\* analyze, lines 38-42
device_id_of(fingerprint_data) ==
    IF Get(fingerprint_data, "hash", "") # ""
      THEN [hash |-> fingerprint_data.hash]
    ELSE generate_device_id(fingerprint_data)

DeviceIds == {device_id_of(f) : f \in Fingerprints \ {[k \in {} |-> 0]}}

\* some call of the analysis dereferences webgl as a dict
RaisesAttributeError(fingerprint_data) ==
    /\ "webgl" \in DOMAIN fingerprint_data
    /\ ~fingerprint_data.webgl.is_dict

Reported(fingerprint_data) == Get(fingerprint_data, "inconsistencies", << >>)

\* _check_automation_signs
check_automation_signs(fingerprint_data) ==
    \/ \E i \in DOMAIN Reported(fingerprint_data) :
          Reported(fingerprint_data)[i] \in
              {"automation_detected", "missing_graphics_support", "missing_audio_support"}
    \/ Get(fingerprint_data, "webdriver", FALSE)
    \/ Get(fingerprint_data, "hardwareConcurrency", 1) = 0
    \/ /\ Get(fingerprint_data, "plugins", 0) = 0
       /\ UaContains(Get(fingerprint_data, "userAgent", ""), "chrome")

\* _check_browser_spoofing
check_browser_spoofing(fingerprint_data) ==
    LET ua == Get(fingerprint_data, "userAgent", "")
        webgl == Get(fingerprint_data, "webgl",
                     [is_dict |-> TRUE, supported |-> FALSE, renderer |-> ""])
    IN \/ \E i \in DOMAIN Reported(fingerprint_data) :
             Reported(fingerprint_data)[i] \in
                 {"ua_platform_mismatch", "browser_plugin_mismatch"}
       \/ /\ webgl.supported
          /\ \/ UaContains(ua, "trident") \/ UaContains(ua, "msie")
             \/ /\ UaContains(ua, "mobile") \/ UaContains(ua, "android")
                /\ webgl.renderer \in {"nvidia geforce", "amd radeon", "intel hd graphics 620"}

\* _check_proxy_signs
check_proxy_signs(fingerprint_data) == FALSE

\* _check_fingerprint_tampering
check_fingerprint_tampering(fingerprint_data) ==
    LET ua == Get(fingerprint_data, "userAgent", "")
        screen == Get(fingerprint_data, "screen", [width |-> 0, height |-> 0])
    IN \/ ~({"userAgent", "language", "screen", "timezone"} \subseteq DOMAIN fingerprint_data)
       \/ /\ ~Get(fingerprint_data, "canvasSupported", TRUE)
          /\ ~(UaContains(ua, "msie") /\ UaContains(ua, "trident"))
       \/ screen.width = 1024 /\ screen.height = 768

\* analyze, lines 48-68: the issues, in the order found
detect_issues(fingerprint_data) ==
    Reported(fingerprint_data)
    \o (IF check_automation_signs(fingerprint_data) THEN <<"automation_detected">> ELSE << >>)
    \o (IF check_browser_spoofing(fingerprint_data) THEN <<"browser_spoofing">> ELSE << >>)
    \o (IF check_proxy_signs(fingerprint_data) THEN <<"proxy_detected">> ELSE << >>)
    \o (IF check_fingerprint_tampering(fingerprint_data)
          THEN <<"fingerprint_tampering">> ELSE << >>)

\* _calculate_confidence_score, in hundredths: the product of (1 - deduction),
\* rounded to 2 places, at least 0.1
calculate_confidence_score(fingerprint_data) ==
    LET no_canvas == "canvasHash" \notin DOMAIN fingerprint_data
        no_webgl == \/ "webgl" \notin DOMAIN fingerprint_data
                    \/ ~fingerprint_data.webgl.supported
        no_audio == \/ "audio" \notin DOMAIN fingerprint_data
                    \/ ~fingerprint_data.audio.supported
        reported == Reported(fingerprint_data) # << >>
        \* score in ten-thousandths
        score == (IF no_canvas THEN 8 ELSE 10) * (IF no_webgl THEN 8 ELSE 10)
                     * (IF no_audio THEN 9 ELSE 10) * (IF reported THEN 7 ELSE 10)
        rounded == py_round(score, 100)
    IN IF rounded < 10 THEN 10 ELSE rounded

issue_scores ==
    [invalid_fingerprint_data |-> 75, automation_detected |-> 85, browser_spoofing |-> 80,
     proxy_detected |-> 50, fingerprint_tampering |-> 70, ua_platform_mismatch |-> 75,
     browser_plugin_mismatch |-> 65, mobile_mismatch |-> 70, unrealistic_hardware |-> 60,
     missing_graphics_support |-> 65, missing_audio_support |-> 40, analysis_error |-> 60]

\* DeviceFingerprinter._calculate_risk_score
DeviceFingerprinter_calculate_risk_score(issues, is_known_device) ==
    IF issues = << >> /\ is_known_device THEN 0
    ELSE LET base_score == IF is_known_device THEN 25 ELSE 50
             scores == {Get(issue_scores, issues[i], 50) : i \in DOMAIN issues} \cup {0}
             max_issue_score == CHOOSE m \in scores : \A x \in scores : x <= m
         IN IF max_issue_score > base_score THEN max_issue_score ELSE base_score

\* Database.get_device_data(device_id)
get_device_data(store, device_id) == store[device_id]

\* Database.store_device_data(device_data, user_id=None) as _store_fingerprint
\* calls it, store_device_data(device_id, device_data): the first argument is
\* a string, so the record written is {'device_id': device_id}, to which the
\* second argument is attached as 'user_id'
store_device_data(store, device_id, device_data, current_time) ==
    [store EXCEPT ![device_id] =
        [device_id |-> device_id, user_id |-> device_data, updated_at |-> current_time]]

\* list(set(...)): the order of the result is not determined
RangeOf(seq) == {seq[i] : i \in DOMAIN seq}

\* _store_fingerprint: the device data handed to store_device_data
new_device_data(stored, device_id, fingerprint_data, issues, current_time) ==
    IF stored = None
      THEN [device_id |-> device_id, first_seen |-> current_time,
            last_seen |-> current_time, visit_count |-> 1,
            fingerprints |-> <<fingerprint_data>>, issues_history |-> RangeOf(issues)]
    ELSE LET seen == Put(stored, "last_seen", current_time)
             visited == Put(seen, "visit_count", Get(stored, "visit_count", 0) + 1)
             \* fingerprints[-5:]
             kept == Put(visited, "fingerprints",
                         LastOf(Append(Get(stored, "fingerprints", << >>),
                                       fingerprint_data), 5))
         IN IF issues # << >>
              THEN Put(kept, "issues_history",
                       Get(stored, "issues_history", {}) \cup RangeOf(issues))
            ELSE kept

\* DeviceFingerprinter.analyze: the result and the store after the call
analyze_outcome(store, fingerprint_data, current_time) ==
    IF DOMAIN fingerprint_data = {}
      THEN [result |-> [risk_score |-> 75, issues |-> <<"invalid_fingerprint_data">>,
                        is_suspicious |-> TRUE, device_id |-> None],
            store |-> store]
    ELSE IF RaisesAttributeError(fingerprint_data)
      \* lines 103-111
      THEN [result |-> [risk_score |-> 60, issues |-> <<"analysis_error">>,
                        is_suspicious |-> TRUE, device_id |-> None, error |-> TRUE],
            store |-> store]
    ELSE LET device_id == device_id_of(fingerprint_data)
             device_history == get_device_data(store, device_id)
             is_known_device == device_history # None
             issues == detect_issues(fingerprint_data)
             risk_score == DeviceFingerprinter_calculate_risk_score(issues, is_known_device)
             result == [risk_score |-> risk_score, issues |-> issues,
                        is_suspicious |-> risk_score > 50, device_id |-> device_id,
                        is_known_device |-> is_known_device,
                        confidence_score |-> calculate_confidence_score(fingerprint_data)]
         IN [result |->
                IF is_known_device
                  THEN Put(result, "device_history",
                           [first_seen |-> Get(device_history, "first_seen", None),
                            last_seen |-> Get(device_history, "last_seen", None),
                            visit_count |-> Get(device_history, "visit_count", 1)])
                ELSE result,
             store |-> store_device_data(store, device_id,
                           new_device_data(device_history, device_id, fingerprint_data,
                                           issues, current_time),
                           current_time)]

MaxAnalyses == 3

DeviceFingerprinter_analyze ==
    /\ analyses_done < MaxAnalyses
    /\ \E fingerprint_data \in Fingerprints :
          LET out == analyze_outcome(devices, fingerprint_data, now)
          IN /\ devices' = out.store
             /\ dev_call' = [fingerprint_data |-> fingerprint_data,
                             stored_before |-> devices,
                             result |-> out.result]
    /\ analyses_done' = analyses_done + 1
    /\ now' = now + 100
    /\ UNCHANGED <<request, response, last_login, geo_call, vel_in, vel_result,
                   failed_logins, recorded, pwd_call, sessVars, logins, geo_calls_done, restVars>>

(***************************************************************************)
(* The two entry points, call by call: main_app.analyze_request and        *)
(* routes.analyze_user read the request, call the eight detectors one      *)
(* after the other in the same thread, and fuse the results.  The geo-     *)
(* velocity and access-time calls work on the login store; the results of  *)
(* the other six detectors are inputs of the request.                      *)
(***************************************************************************)

Endpoints == {"analyze", "analyze-user"}

\* the order of the detector calls in the two handlers
call_order(endpoint) ==
    IF endpoint = "analyze"
      THEN <<"user_agent", "geo_velocity", "access_time", "password_attack",
             "device", "account_velocity", "session", "ip_reputation">>
    ELSE <<"user_agent", "geo_velocity", "access_time", "device",
           "ip_reputation", "password_attack", "account_velocity", "session">>

\* request bodies: none, text that is not JSON, JSON that is not an object,
\* and objects with the fields the handlers read
ReqIPs == {"ip_a", "ip_x"}
ReqTimestamps == {T0 - 3600, T0}
MissingBody == [kind |-> "missing"]
MalformedBody == [kind |-> "malformed"]
ListBody == [kind |-> "list"]
DictBodies ==
    {[kind |-> "dict", user_id |-> u, ip_address |-> ip, timestamp |-> ts] :
        u \in Users, ip \in ReqIPs, ts \in ReqTimestamps}
Bodies == {MissingBody, MalformedBody, ListBody} \cup DictBodies

\* request.json: None or an exception without a JSON body (which of the two
\* depends on the Flask version), an exception for text that is not JSON
get_json(body) ==
    CASE body.kind = "missing"   -> {"None", "raises"}
      [] body.kind = "malformed" -> {"raises"}
      [] body.kind = "list"      -> {"list"}
      [] body.kind = "dict"      -> {"dict"}

\* mongodb.users.find_one: the users of the test database
UnknownUser == 0
PathUsers == Users \cup {UnknownUser}
\* request.remote_addr
remote_addr == "ip_a"

\* the except branch of both handlers, and the 404 of analyze_user
error_response(status) == [status |-> status, body |-> [error |-> "message"]]

\* the arguments the handler hands to the detectors, or the response it
\* returns before calling any
read_request(endpoint, path_user, body, json, current_time) ==
    IF endpoint = "analyze"
      THEN IF json = "dict"
             THEN [args |-> [user_id |-> body.user_id, ip_address |-> body.ip_address,
                             timestamp |-> body.timestamp],
                   response |-> None]
           ELSE [args |-> None, response |-> error_response(500)]
    ELSE IF json \in {"raises", "list"}
      THEN [args |-> None, response |-> error_response(500)]
    ELSE IF path_user = UnknownUser
      THEN [args |-> None, response |-> error_response(404)]
    ELSE [args |-> [user_id |-> path_user,
                    ip_address |-> IF json = "dict" THEN body.ip_address ELSE remote_addr,
                    timestamp |-> current_time],
          response |-> None]

\* Database.get_login_history (file storage), _get_login_history: the
\* timestamps of the stored logins, newest first, at most limit = 10
Reverse(seq) == [i \in DOMAIN seq |-> seq[Len(seq) + 1 - i]]
get_login_history(store, user_id) ==
    LET stored == store.logins[user_id]
        newest_first == Reverse(sorted([i \in DOMAIN stored |-> stored[i].timestamp]))
    IN SubSeq(newest_first, 1, IF Len(newest_first) < 10 THEN Len(newest_first) ELSE 10)

\* AccessTimeAnalyzer.__init__
min_history_points == 5

\* what the isolation forest and _check_specific_patterns make of a login
\* time, given enough history: an input of the request
AccessVerdicts ==
    {[risk_score |-> 0, status |-> "normal"],
     [risk_score |-> 75, status |-> "dormant_account"]}

\* AccessTimeAnalyzer.analyze
access_time_analyze(login_history, timestamp, verdict) ==
    IF Len(login_history) < min_history_points
      THEN [risk_score |-> 0, status |-> "insufficient_history"]
    ELSE verdict

\* the results of the other six detectors: all clear, or the result each
\* returns from its except branch
OtherSignals == Signals \ {"geo_velocity", "access_time"}
ClearResults == [s \in OtherSignals |-> [risk_score |-> 0, status |-> "normal"]]
ErrorResults ==
    [s \in OtherSignals |->
        CASE s = "user_agent"      -> [risk_score |-> 75, status |-> "parsing_error"]
          [] s = "device"          -> [risk_score |-> 60, status |-> "analysis_error"]
          [] s = "password_attack" -> [risk_score |-> 50, status |-> "detection_error"]
          [] OTHER                 -> [risk_score |-> 50, status |-> "error"]]
OtherResults == {ClearResults, ErrorResults}

MaxRequests == 1

\* the handler up to the first detector call: request.json, the fields of
\* the body, and in analyze_user the lookup of the user
begin_request(endpoint, path_user, body, json, verdict, others) ==
    LET read == read_request(endpoint, path_user, body, json, now)
    IN /\ handler_pc.at \in {"idle", "done"}
       /\ requests_done < MaxRequests
       /\ requests_done' = requests_done + 1
       /\ http_request' = [endpoint |-> endpoint, path_user |-> path_user,
                           body |-> body, json |-> json, args |-> read.args,
                           verdict |-> verdict, others |-> others]
       /\ handler_pc' = IF read.args = None THEN [at |-> "done", call |-> 0]
                        ELSE [at |-> "calling", call |-> 1]
       /\ handler_results' = << >>
       /\ logins_at_start' = logins
       /\ http_response' = read.response
       /\ UNCHANGED <<logins, last_login, nonLoginVars, contractVars, threadVars>>

BeginRequest ==
    \E endpoint \in Endpoints, body \in Bodies, verdict \in AccessVerdicts,
       others \in OtherResults :
        \E json \in get_json(body),
           path_user \in (IF endpoint = "analyze" THEN {UnknownUser} ELSE PathUsers) :
            begin_request(endpoint, path_user, body, json, verdict, others)

\* the detector the handler is about to call
Calling(signal) ==
    /\ handler_pc.at = "calling"
    /\ call_order(http_request.endpoint)[handler_pc.call] = signal
\* the call returned result
Returned(signal, result) ==
    /\ handler_results' = handler_results @@ (signal :> result)
    /\ handler_pc' = IF handler_pc.call = Cardinality(Signals)
                       THEN [at |-> "fusion", call |-> 0]
                     ELSE [at |-> "calling", call |-> handler_pc.call + 1]
    /\ UNCHANGED <<http_request, logins_at_start, http_response, requests_done>>

\* geo_velocity_detector.detect(user_id, ip_address, timestamp)
call_geo_velocity ==
    LET out == detect_outcome([logins |-> logins, last_login |-> last_login],
                              http_request.args.user_id, http_request.args.ip_address,
                              http_request.args.timestamp)
    IN /\ Calling("geo_velocity")
       /\ logins' = out.store.logins
       /\ last_login' = out.store.last_login
       /\ Returned("geo_velocity", out.result)
       /\ UNCHANGED <<nonLoginVars, contractVars, threadVars>>

\* _get_location, line 188: requests.get without a timeout, for an address
\* neither the GeoIP reader nor the store resolves; the call need not return
geo_lookup_blocks ==
    /\ Calling("geo_velocity")
    /\ get_location(http_request.args.ip_address) = NoLocation
    /\ handler_pc' = [at |-> "blocked", call |-> handler_pc.call]
    /\ UNCHANGED <<http_request, handler_results, logins_at_start, http_response,
                   requests_done, logins, last_login, nonLoginVars, contractVars, threadVars>>

\* access_time_analyzer.analyze(user_id, timestamp)
call_access_time ==
    /\ Calling("access_time")
    /\ Returned("access_time",
                access_time_analyze(
                    get_login_history([logins |-> logins, last_login |-> last_login],
                                      http_request.args.user_id),
                    http_request.args.timestamp, http_request.verdict))
    /\ UNCHANGED <<logins, last_login, nonLoginVars, contractVars, threadVars>>

\* the calls of the other six detectors
call_detector(signal) ==
    /\ Calling(signal)
    /\ Returned(signal, http_request.others[signal])
    /\ UNCHANGED <<logins, last_login, nonLoginVars, contractVars, threadVars>>

CallOtherDetector == \E signal \in OtherSignals : call_detector(signal)

\* the overall risk, the response and jsonify(response)
risk_scores_of(handler_results_) == [s \in Signals |-> handler_results_[s].risk_score]
fuse(endpoint, user_id, handler_results_) ==
    LET scores == risk_scores_of(handler_results_)
    IN IF endpoint = "analyze"
         THEN MakeResponse(analyze_request_overall(scores), handler_results_)
       ELSE MakeResponse(analyze_user_overall(scores), handler_results_)
                @@ [user_info |-> [user_id |-> user_id]]

respond ==
    /\ handler_pc.at = "fusion"
    /\ http_response' = [status |-> 200,
                         body |-> fuse(http_request.endpoint, http_request.args.user_id,
                                       handler_results)]
    /\ handler_pc' = [at |-> "done", call |-> 0]
    /\ UNCHANGED <<http_request, handler_results, logins_at_start, requests_done,
                   logins, last_login, nonLoginVars, contractVars, threadVars>>

(***************************************************************************)
(* Concurrent requests.  The detectors are module-level objects shared by  *)
(* the request threads of the server; no lock is taken anywhere.  A call   *)
(* of GeoVelocityDetector.detect reads the user's last login               *)
(* (_get_previous_login), compares, and stores the login (_store_login);   *)
(* another thread can run between the read and the store.                  *)
(***************************************************************************)

Threads == {1, 2}
RaceIPs == {"ip_a", "ip_d"}
RaceTimestamps == {T0, T0 + 61}
IdleThread == [pc |-> "idle", args |-> None, previous_login |-> None, result |-> None]

\* detect is called: lines 32-50, the arguments and the location lookup
geo_enter(t, user_id, ip_address, current_timestamp) ==
    /\ geo_threads[t].pc = "idle"
    /\ geo_threads' = [geo_threads EXCEPT ![t] =
                          [pc |-> "entered",
                           args |-> [user_id |-> user_id, ip_address |-> ip_address,
                                     timestamp |-> current_timestamp],
                           previous_login |-> None, result |-> None]]
    /\ UNCHANGED <<logins, last_login, store_at_start, dev_threads,
                   nonLoginVars, contractVars, handlerVars>>

GeoEnter ==
    \E t \in Threads, u \in Users, ip \in RaceIPs, ts \in RaceTimestamps :
        geo_enter(t, u, ip, ts)

\* line 60: previous_login = self._get_previous_login(user_id)
geo_read(t) ==
    /\ geo_threads[t].pc = "entered"
    /\ geo_threads' = [geo_threads EXCEPT ![t] =
                          [@ EXCEPT !.pc = "read",
                                    !.previous_login =
                                        get_last_login([logins |-> logins,
                                                        last_login |-> last_login],
                                                       geo_threads[t].args.user_id)]]
    /\ UNCHANGED <<logins, last_login, store_at_start, dev_threads,
                   nonLoginVars, contractVars, handlerVars>>

GeoRead == \E t \in Threads : geo_read(t)

\* lines 62-155: the comparison with the login that was read, _store_login,
\* and the result
geo_finish(t) ==
    LET th == geo_threads[t]
        out == detect_after_read([logins |-> logins, last_login |-> last_login],
                                 th.previous_login, th.args.user_id,
                                 th.args.ip_address, th.args.timestamp)
    IN /\ th.pc = "read"
       /\ logins' = out.store.logins
       /\ last_login' = out.store.last_login
       /\ geo_threads' = [geo_threads EXCEPT ![t] =
                             [@ EXCEPT !.pc = "returned", !.result = out.result]]
       /\ UNCHANGED <<store_at_start, dev_threads, nonLoginVars, contractVars,
                      handlerVars>>

GeoFinish == \E t \in Threads : geo_finish(t)

\* Concurrent DeviceFingerprinter.analyze calls for one fingerprint: each
\* reads the device for its result (_check_known_device), reads it again in
\* _store_fingerprint, and writes the record it built from what it read.
NumAnalysers == 3
Analysers == 1 .. NumAnalysers
AnalysableFingerprints ==
    {f \in Fingerprints : DOMAIN f # {} /\ ~RaisesAttributeError(f)}
IdleAnalyser(fingerprint_data) ==
    [pc |-> "idle", fingerprint_data |-> fingerprint_data,
     device_history |-> None, device_data |-> None, result |-> None]

\* analyze, line 45: is_known_device, device_history = _check_known_device
dev_check_known(t) ==
    LET th == dev_threads[t]
    IN /\ th.pc = "idle"
       /\ dev_threads' = [dev_threads EXCEPT ![t] =
             [pc |-> "checked", fingerprint_data |-> th.fingerprint_data,
              device_history |-> get_device_data(devices, device_id_of(th.fingerprint_data)),
              device_data |-> None, result |-> None]]
       /\ UNCHANGED <<devices, analyses_done, dev_call, geo_threads, store_at_start,
                      request, response, last_login, geo_call, now, vel_in, vel_result,
                      failed_logins, recorded, pwd_call, sessVars, logins,
                      geo_calls_done, contractVars, handlerVars>>

\* _store_fingerprint, line 323: device_data = self.db.get_device_data(device_id)
dev_read(t) ==
    LET th == dev_threads[t]
    IN /\ th.pc = "checked"
       /\ dev_threads' = [dev_threads EXCEPT ![t] =
             [pc |-> "read", fingerprint_data |-> th.fingerprint_data,
              device_history |-> th.device_history,
              device_data |-> get_device_data(devices, device_id_of(th.fingerprint_data)),
              result |-> None]]
       /\ UNCHANGED <<devices, analyses_done, dev_call, geo_threads, store_at_start,
                      request, response, last_login, geo_call, now, vel_in, vel_result,
                      failed_logins, recorded, pwd_call, sessVars, logins,
                      geo_calls_done, contractVars, handlerVars>>

\* _store_fingerprint, lines 325-352: the record built from the data read is
\* written; analyze returns its result, built on the history of line 45
dev_write(t) ==
    LET th == dev_threads[t]
        device_id == device_id_of(th.fingerprint_data)
        alone == analyze_outcome([devices EXCEPT ![device_id] = th.device_history],
                                 th.fingerprint_data, now)
    IN /\ th.pc = "read"
       /\ devices' = store_device_data(devices, device_id,
                         new_device_data(th.device_data, device_id, th.fingerprint_data,
                                         detect_issues(th.fingerprint_data), now),
                         now)
       /\ dev_threads' = [dev_threads EXCEPT ![t] =
             [pc |-> "returned", fingerprint_data |-> th.fingerprint_data,
              device_history |-> th.device_history, device_data |-> th.device_data,
              result |-> alone.result]]
       /\ UNCHANGED <<analyses_done, dev_call, geo_threads, store_at_start,
                      request, response, last_login, geo_call, now, vel_in, vel_result,
                      failed_logins, recorded, pwd_call, sessVars, logins,
                      geo_calls_done, contractVars, handlerVars>>

DevCheckKnown == \E t \in Analysers : dev_check_known(t)
DevRead == \E t \in Analysers : dev_read(t)
DevWrite == \E t \in Analysers : dev_write(t)

(***************************************************************************)
(* Specifications                                                          *)
(***************************************************************************)

GeoIdle ==
    /\ last_login = [u \in Users |-> None]
    /\ logins = [u \in Users |-> << >>]
    /\ geo_calls_done = 0
    /\ geo_call = None

DevIdle ==
    /\ devices = [d \in DeviceIds |-> None]
    /\ analyses_done = 0
    /\ dev_call = None

VelIdle ==
    /\ vel_in = None
    /\ vel_result = None

PwdIdle ==
    /\ failed_logins = << >>
    /\ recorded = 0
    /\ pwd_call = None

SessIdle ==
    /\ user_models = [u \in SessUsers |-> None]
    /\ default_transitions = DefaultTransitions
    /\ sessions_done = 0
    /\ sess_call = None

FusionIdle ==
    /\ request = None
    /\ response = None

ContractIdle ==
    /\ db_type = "file"
    /\ db_store = None
    /\ db_calls_done = 0
    /\ db_call = None

HandlerIdle ==
    /\ http_request = None
    /\ handler_pc = [at |-> "idle", call |-> 0]
    /\ handler_results = << >>
    /\ logins_at_start = << >>
    /\ http_response = None
    /\ requests_done = 0

ThreadsIdle ==
    /\ geo_threads = << >>
    /\ store_at_start = None
    /\ dev_threads = << >>

RestIdle == ContractIdle /\ HandlerIdle /\ ThreadsIdle

Init ==
    /\ RestIdle
    /\ request \in [endpoint : {"analyze", "analyze-user"}, results : ScoreVectors]
    /\ response = None
    /\ GeoIdle
    /\ VelIdle
    /\ PwdIdle
    /\ SessIdle
    /\ DevIdle
    /\ now = T0

Next == analyze_request \/ analyze_user

Spec == Init /\ [][Next]_vars

InitGeo ==
    /\ RestIdle
    /\ FusionIdle
    /\ GeoIdle
    /\ VelIdle
    /\ PwdIdle
    /\ SessIdle
    /\ DevIdle
    /\ now = T0

NextGeo == GeoDetect

SpecGeo == InitGeo /\ [][NextGeo]_vars

\* a login history as store_login leaves it: k logins an hour apart, the last
\* one an hour before T0
StoredLogins(k) ==
    [i \in 1 .. k |->
        [ip |-> "ip_a", location |-> "A", timestamp |-> T0 - 3600 * (k + 1 - i)]]

InitLogins ==
    /\ RestIdle
    /\ FusionIdle
    /\ VelIdle
    /\ PwdIdle
    /\ SessIdle
    /\ DevIdle
    /\ now = T0
    /\ geo_call = None
    /\ geo_calls_done = 0
    /\ \E k \in {0, 8, 9, 10} :
          /\ logins = [u \in Users |-> StoredLogins(k)]
          /\ last_login = [u \in Users |-> IF k = 0 THEN None ELSE StoredLogins(k)[k]]

SpecLogins == InitLogins /\ [][NextGeo]_vars

\* the stores the contract starts from: no login of the user, or one login
\* an hour before T0, or one login two hours after T0 (a record with a later
\* timestamp than any login the model stores)
SeedLogin(user_id, timestamp) == make_login_data(user_id, "ip_b", "B", timestamp)
SeededStore(kind, timestamp) ==
    LET seed(u) == SeedLogin(u, timestamp)
    IN CASE kind = "file" ->
              [logins |-> [u \in Users |-> <<json_dump(seed(u))>>],
               users |-> [u \in Users |-> json_dump(seed(u))]]
         [] kind = "mongodb" ->
              [logins |-> [u \in Users |-> <<with_object_id(seed(u), u)>>],
               users |-> [u \in Users |-> with_object_id(seed(u), u)]]
         [] kind = "mock" ->
              [logins |-> [u \in Users |-> <<with_object_id(seed(u), u)>>],
               users |-> [u \in Users |-> None]]
EmptyStore == [logins |-> [u \in Users |-> << >>], users |-> [u \in Users |-> None]]

InitStore ==
    /\ HandlerIdle
    /\ ThreadsIdle
    /\ FusionIdle
    /\ GeoIdle
    /\ VelIdle
    /\ PwdIdle
    /\ SessIdle
    /\ DevIdle
    /\ now = T0
    /\ db_type \in StoreKinds
    /\ db_store \in {EmptyStore, SeededStore(db_type, T0 - 3600),
                     SeededStore(db_type, T0 + 7200)}
    /\ db_calls_done = 0
    /\ db_call = None

NextStore == StoreContract

SpecStore == InitStore /\ [][NextStore]_vars

\* a request arrives at a store that holds no login of the user or four
InitRequest ==
    /\ ContractIdle
    /\ ThreadsIdle
    /\ HandlerIdle
    /\ FusionIdle
    /\ VelIdle
    /\ PwdIdle
    /\ SessIdle
    /\ DevIdle
    /\ now = T0
    /\ geo_call = None
    /\ geo_calls_done = 0
    /\ \E k \in {0, 4} :
          /\ logins = [u \in Users |-> StoredLogins(k)]
          /\ last_login = [u \in Users |-> IF k = 0 THEN None ELSE StoredLogins(k)[k]]

NextRequest ==
    \/ BeginRequest
    \/ call_geo_velocity
    \/ geo_lookup_blocks
    \/ call_access_time
    \/ CallOtherDetector
    \/ respond

SpecRequest == InitRequest /\ [][NextRequest]_vars

\* the handler runs in a thread of its own: a step that can be taken is taken
SpecRequestLive == SpecRequest /\ WF_vars(NextRequest)

\* two request threads and a login store that holds no login of the user,
\* or one
InitGeoRace ==
    /\ ContractIdle
    /\ HandlerIdle
    /\ FusionIdle
    /\ VelIdle
    /\ PwdIdle
    /\ SessIdle
    /\ DevIdle
    /\ now = T0
    /\ geo_call = None
    /\ geo_calls_done = 0
    /\ \E k \in {0, 1} :
          /\ logins = [u \in Users |-> StoredLogins(k)]
          /\ last_login = [u \in Users |-> IF k = 0 THEN None ELSE StoredLogins(k)[k]]
    /\ store_at_start = [logins |-> logins, last_login |-> last_login]
    /\ geo_threads = [t \in Threads |-> IdleThread]
    /\ dev_threads = << >>

NextGeoRace == GeoEnter \/ GeoRead \/ GeoFinish

SpecGeoRace == InitGeoRace /\ [][NextGeoRace]_vars

\* NumAnalysers request threads analyse one fingerprint of a device the
\* store has no record of
InitDevRace ==
    /\ ContractIdle
    /\ HandlerIdle
    /\ FusionIdle
    /\ GeoIdle
    /\ VelIdle
    /\ PwdIdle
    /\ SessIdle
    /\ DevIdle
    /\ now = T0
    /\ geo_threads = << >>
    /\ store_at_start = None
    /\ \E f \in AnalysableFingerprints :
          dev_threads = [t \in Analysers |-> IdleAnalyser(f)]

NextDevRace == DevCheckKnown \/ DevRead \/ DevWrite

SpecDevRace == InitDevRace /\ [][NextDevRace]_vars

\* check is a function of its arguments and of the random draws: the initial
\* states enumerate them, the action applies check.
InitVel ==
    /\ RestIdle
    /\ FusionIdle
    /\ GeoIdle
    /\ PwdIdle
    /\ SessIdle
    /\ DevIdle
    /\ now = T0
    /\ vel_result = None
    /\ \E ip \in VelIPs, email \in Emails :
         \E di \in Draws("ip"),
            ds \in (IF get_subnet(ip) # NoEntity THEN Draws("subnet") ELSE {NoDraw}),
            dd \in (IF get_email_domain(email) # NoEntity THEN Draws("email_domain") ELSE {NoDraw}) :
             vel_in = [ip_address |-> ip, email |-> email,
                       draws |-> [ip |-> di, subnet |-> ds, email_domain |-> dd]]

NextVel == AccountVelocityMonitor_check

SpecVel == InitVel /\ [][NextVel]_vars

InitPwd ==
    /\ RestIdle
    /\ FusionIdle
    /\ GeoIdle
    /\ VelIdle
    /\ now = T0
    /\ failed_logins \in InitialStores(T0)
    /\ recorded = 0
    /\ pwd_call = None
    /\ SessIdle
    /\ DevIdle

NextPwd == record_failed_login \/ PasswordAttackDetector_detect

SpecPwd == InitPwd /\ [][NextPwd]_vars

InitSess ==
    /\ RestIdle
    /\ FusionIdle
    /\ GeoIdle
    /\ VelIdle
    /\ PwdIdle
    /\ now = T0
    /\ \E stored \in {None, GeneratedModel} :
          user_models = [u \in SessUsers |-> IF u = "u1" THEN None ELSE stored]
    /\ default_transitions = DefaultTransitions
    /\ sessions_done = 0
    /\ sess_call = None
    /\ DevIdle

NextSess == SessionAnomalyDetector_detect

SpecSess == InitSess /\ [][NextSess]_vars

InitDev ==
    /\ RestIdle
    /\ FusionIdle
    /\ GeoIdle
    /\ VelIdle
    /\ PwdIdle
    /\ SessIdle
    /\ DevIdle
    /\ now = T0

NextDev == DeviceFingerprinter_analyze

SpecDev == InitDev /\ [][NextDev]_vars

(***************************************************************************)
(* Signal fusion: properties                                               *)
(***************************************************************************)

WeightedSum(results) ==
    20 * results.geo_velocity + 15 * results.password_attack
    + 15 * results.device + 10 * results.user_agent
    + 10 * results.access_time + 10 * results.account_velocity
    + 10 * results.session + 10 * results.ip_reputation

\* C1: every response of an analysis entry point carries an integer
\* overall_risk in 0..100 that is the weighted sum of the eight scores
\* (weights 0.20, 0.15, 0.15 and five times 0.10) rounded to the nearest
\* integer.
C1_OverallIsRoundedWeightedSum ==
    response # None =>
        LET o == response.overall_risk
            s == WeightedSum(response.predictors)
        IN /\ o.num % o.den = 0
           /\ o.num \div o.den \in 0 .. 100
           /\ 100 * o.num - s * o.den \in (-50 * o.den) .. (50 * o.den)

Severity(level) ==
    CASE level = "low" -> 0
      [] level = "medium" -> 1
      [] level = "high" -> 2
      [] level = "critical" -> 3

\* C2: the reported (risk_level, recommendation) is (low, allow) below 25,
\* (medium, monitor) from 25 below 50, (high, challenge) from 50 below 75 and
\* (critical, block) from 75; no score above the reported one has a less
\* severe level.
C2_LevelAndRecommendation ==
    response # None =>
        LET o == response.overall_risk
            pair == <<response.risk_level, response.recommendation>>
        IN /\ (o.num < 25 * o.den) => pair = <<"low", "allow">>
           /\ (25 * o.den <= o.num /\ o.num < 50 * o.den) => pair = <<"medium", "monitor">>
           /\ (50 * o.den <= o.num /\ o.num < 75 * o.den) => pair = <<"high", "challenge">>
           /\ (75 * o.den <= o.num) => pair = <<"critical", "block">>
           /\ \A s2 \in 0 .. 100 :
                 s2 * o.den >= o.num =>
                    Severity(get_risk_level([num |-> s2, den |-> 1]))
                        >= Severity(response.risk_level)

\* a response whose score sits exactly on the medium/high threshold
C2_Witness ==
    /\ response # None
    /\ response.overall_risk.num = 50 * response.overall_risk.den
    /\ response.risk_level = "high"
    /\ response.recommendation = "challenge"

(***************************************************************************)
(* Geo-velocity detector: properties                                       *)
(***************************************************************************)

CallGap == geo_call.timestamp - geo_call.previous_login.timestamp
CallDistance ==
    calculate_distance(geo_call.previous_login.location, get_location(geo_call.ip))
\* a call for a user with a stored last login, from a resolvable address
ComparedCall ==
    /\ geo_call # None
    /\ geo_call.previous_login # None
    /\ get_location(geo_call.ip) # NoLocation

\* C3: with a stored last login and a resolvable location, detect returns
\* duplicate_request (risk 0) exactly when the gap to the stored login is
\* less than 60 seconds.
C3_DuplicateIffUnder60s ==
    ComparedCall =>
        /\ (geo_call.result.status = "duplicate_request") <=> (CallGap < 60)
        /\ (geo_call.result.status = "duplicate_request") => geo_call.result.risk_score = 0

StoringStatuses ==
    {"first_login", "extended_time_gap", "same_area", "impossible_travel",
     "highly_suspicious_travel", "suspicious_travel", "normal_travel", "slow_travel"}

\* C4: after a call that evaluates a located login the stored last login of
\* the user is the login of that call; after duplicate_request or
\* unknown_location it is the login stored before the call.
C4_StoreAfterEvaluation ==
    geo_call # None =>
        /\ geo_call.result.status \in StoringStatuses \cup {"duplicate_request", "unknown_location"}
        /\ geo_call.result.status \in StoringStatuses =>
              last_login[geo_call.user_id] =
                  [ip |-> geo_call.ip, location |-> get_location(geo_call.ip),
                   timestamp |-> geo_call.timestamp]
        /\ geo_call.result.status \in {"duplicate_request", "unknown_location"} =>
              last_login[geo_call.user_id] = geo_call.previous_login

\* a speed-classified call has replaced a different stored login
C4_Witness ==
    /\ ComparedCall
    /\ geo_call.result.status = "impossible_travel"
    /\ last_login[geo_call.user_id] # geo_call.previous_login
    /\ last_login[geo_call.user_id].timestamp = geo_call.timestamp

ExpectedTravelClass(distance, gap) ==
    LET air == IF distance < 500 THEN 700 ELSE 900
        train == IF distance < 500 THEN 200 ELSE 300
    IN IF 360 * distance > air * gap THEN <<100, "impossible_travel">>
       ELSE IF 360 * distance > train * gap THEN <<80, "highly_suspicious_travel">>
       ELSE IF 360 * distance > 120 * gap THEN <<60, "suspicious_travel">>
       ELSE IF 360 * distance > 7 * gap THEN <<0, "normal_travel">>
       ELSE <<0, "slow_travel">>

\* C6: for a gap from 60 seconds to 7 days and a distance of at least 10 km
\* the result is the class of speed = distance / gap: above 900 km/h (700
\* under 50 km) 100 impossible_travel, above 300 (200) 80
\* highly_suspicious_travel, above 120 60 suspicious_travel, above 7 0
\* normal_travel, else 0 slow_travel.
C6_SpeedClasses ==
    (ComparedCall /\ CallGap >= 60 /\ CallGap <= 604800 /\ CallDistance >= 100) =>
        <<geo_call.result.risk_score, geo_call.result.status>>
            = ExpectedTravelClass(CallDistance, CallGap)

\* the same classification from 61 seconds on
SpeedClassesFrom61s ==
    (ComparedCall /\ CallGap >= 61 /\ CallGap <= 604800 /\ CallDistance >= 100) =>
        <<geo_call.result.risk_score, geo_call.result.status>>
            = ExpectedTravelClass(CallDistance, CallGap)

(***************************************************************************)
(* Account velocity monitor: properties                                    *)
(***************************************************************************)

EntityValue(e) ==
    CASE e = "ip" -> vel_in.ip_address
      [] e = "subnet" -> get_subnet(vel_in.ip_address)
      [] e = "email_domain" -> get_email_domain(vel_in.email)
EntitiesPresent == {e \in EntityTypes : EntityValue(e) # NoEntity}

\* the registrations of an entity the store holds, inside a window
StoreCount(e, w) ==
    Len(SelectSeq(get_registrations(e, EntityValue(e)),
                  LAMBDA ts : now - ts <= time_windows[w]))

\* C7: when the store's registration count of every entity is below the
\* entity's threshold in each of the three windows (entities without any
\* record included), check returns risk_score 0 and status normal_velocity.
C7_NormalBelowThresholds ==
    (/\ vel_result # None
     /\ \A e \in EntitiesPresent : \A w \in WindowNames :
            StoreCount(e, w) < thresholds[e][w])
    => /\ vel_result.risk_score = 0
       /\ vel_result.status = "normal_velocity"

\* the counts check itself worked with are below every threshold, and the
\* result is still not (0, normal_velocity)
VelocityAboveZeroBelowThresholds ==
    /\ vel_result # None
    /\ \A e \in DOMAIN vel_result.velocities : \A w \in WindowNames :
           vel_result.velocities[e][w].count < thresholds[e][w]
    /\ vel_result.risk_score > 0

ClaimedWindowRisk(count, threshold) ==
    IF count < threshold THEN 0
    ELSE IF count >= 5 * threshold THEN 100
    ELSE 25 + (75 * (count - threshold)) \div (4 * threshold)

ReportedThresholdRisk ==
    LET risks == {vel_result.velocities[e][w].risk :
                     e \in DOMAIN vel_result.velocities, w \in WindowNames}
    IN CHOOSE r \in risks : \A r2 \in risks : r >= r2

\* C8: per entity type and window the risk is 0 below the threshold, rises
\* linearly from 25 at the threshold to 100 at five times the threshold and
\* is 100 from there on; the threshold risk of the result is the maximum
\* over the windows and the entity types present.
C8_ThresholdRisk ==
    vel_result # None =>
        /\ DOMAIN vel_result.velocities = EntitiesPresent
        /\ \A e \in EntitiesPresent : \A w \in WindowNames :
              LET v == vel_result.velocities[e][w]
              IN /\ v.threshold = thresholds[e][w]
                 /\ v.risk = ClaimedWindowRisk(v.count, v.threshold)
        /\ vel_result.risk_score >= ReportedThresholdRisk
        /\ vel_result.patterns = None => vel_result.risk_score = ReportedThresholdRisk

VelRegistrations(e) ==
    IF e \in EntitiesPresent
      THEN get_registrations_by_entity(e, EntityValue(e), vel_in.draws[e], now)
    ELSE << >>

PatternsFired ==
    {p \in PatternNames :
        CASE p = "burst" -> check_burst_pattern(VelRegistrations("ip"), now) # None
          [] p = "cyclical" -> check_cyclical_pattern(VelRegistrations("subnet")) # None
          [] p = "distributed" ->
                check_distributed_pattern(VelRegistrations("subnet"),
                                          VelRegistrations("email_domain")) # None}

\* C9: the details list every pattern that fired; the pattern reported is the
\* first that fired of burst (90), distributed (80), cyclical (75); the
\* risk_score is the larger of the threshold risk and that pattern's risk, and
\* the status names the pattern only when its risk is the larger one.
C9_MostSeverePattern ==
    vel_result # None =>
        LET fired == PatternsFired
            thr == ReportedThresholdRisk
            top == IF "burst" \in fired THEN "burst"
                   ELSE IF "distributed" \in fired THEN "distributed"
                   ELSE "cyclical"
            topRisk == IF top = "burst" THEN 90 ELSE IF top = "distributed" THEN 80 ELSE 75
            thrStatus == IF thr >= 80 THEN "high_velocity"
                         ELSE IF thr >= 50 THEN "elevated_velocity"
                         ELSE "normal_velocity"
        IN IF fired = {}
             THEN /\ vel_result.patterns = None
                  /\ vel_result.risk_score = thr
                  /\ vel_result.status = thrStatus
           ELSE /\ vel_result.patterns # None
                /\ DOMAIN vel_result.patterns = fired
                /\ vel_result.risk_score = Max(thr, topRisk)
                /\ vel_result.status =
                      IF topRisk > thr THEN top \o "_pattern" ELSE thrStatus

\* cyclical and distributed fire together, without burst
C9_Witness ==
    /\ vel_result # None
    /\ PatternsFired = {"cyclical", "distributed"}
    /\ vel_result.status = "distributed_pattern"
    /\ vel_result.risk_score = 80

\* all three patterns fire
C9_WitnessAllThree ==
    /\ vel_result # None
    /\ PatternsFired = PatternNames
    /\ vel_result.status = "burst_pattern"

\* a pattern fires below a threshold risk of 100
C9_WitnessThresholdWins ==
    /\ vel_result # None
    /\ PatternsFired # {}
    /\ vel_result.status = "high_velocity"
    /\ vel_result.risk_score = 100

\* Age of a failed login at the last detect call, in half seconds: the clock
\* of the call reads now, or now and a fraction of a second.
AgeHalfSeconds(f) == 2 * (now - f.timestamp) + (IF pwd_call.subsecond THEN 1 ELSE 0)

\* Number of failed logins of the call's (user, ip) pair at most minutes old
PairFailuresWithin(minutes) ==
    Cardinality({i \in DOMAIN pwd_call.failures :
        /\ pwd_call.failures[i].username = pwd_call.user_id
        /\ pwd_call.failures[i].ip_address = pwd_call.ip_address
        /\ AgeHalfSeconds(pwd_call.failures[i]) \in 0 .. 2 * 60 * minutes})

ReportsBruteForce ==
    /\ pwd_call.result.attack_detected
    /\ pwd_call.result.attack_type = "bruteforce"
    /\ pwd_call.result.risk_score = 85

ReportsNoAttack ==
    /\ ~pwd_call.result.attack_detected
    /\ pwd_call.result.risk_score = 0

\* C10 as stated: exactly 5 failed logins of the (user, ip) pair within 9
\* minutes of the call make detect report brute force with risk 85, exactly 4
\* make it report no attack and risk 0, and brute force triggers exactly when
\* the pair has at least 5 failures within the last 10 minutes.
C10_Original ==
    pwd_call # None =>
        /\ PairFailuresWithin(9) = 5 => ReportsBruteForce
        /\ PairFailuresWithin(9) = 4 => ReportsNoAttack
        /\ pwd_call.triggered.bruteforce <=> PairFailuresWithin(10) >= 5

\* C10 (amended): brute force triggers exactly when the (user, ip) pair has at
\* least 5 failed logins at most 10 minutes old (so with exactly 5 within 9
\* minutes it triggers); detect then reports an attack, and reports it as
\* brute force with risk 85 unless credential stuffing triggers as well.  With
\* fewer than 5 such failures detect reports no attack and risk 0 provided
\* neither credential stuffing nor password spraying triggers.
C10_BruteForce ==
    pwd_call # None =>
        /\ pwd_call.triggered.bruteforce <=> PairFailuresWithin(10) >= 5
        /\ PairFailuresWithin(9) = 5 => pwd_call.triggered.bruteforce
        /\ PairFailuresWithin(10) >= 5 =>
              /\ pwd_call.result.attack_detected
              /\ pwd_call.result.risk_score >= 85
              /\ ~pwd_call.triggered.credential_stuffing => ReportsBruteForce
        /\ (/\ PairFailuresWithin(10) < 5
            /\ ~pwd_call.triggered.credential_stuffing
            /\ ~pwd_call.triggered.password_spraying) => ReportsNoAttack

\* 5 failures of the pair, the oldest exactly 10 minutes old: brute force
C10_Witness ==
    /\ pwd_call # None
    /\ PairFailuresWithin(9) < 5
    /\ PairFailuresWithin(10) = 5
    /\ \E i \in DOMAIN pwd_call.failures : AgeHalfSeconds(pwd_call.failures[i]) = 1200
    /\ ReportsBruteForce

\* exactly 5 failures within 9 minutes, one of them recorded just now
C10_WitnessFiveWithinNine ==
    /\ pwd_call # None
    /\ recorded = 1
    /\ PairFailuresWithin(9) = 5
    /\ PairFailuresWithin(10) = 5
    /\ ReportsBruteForce

\* 4 failures of the pair and no other attack: no attack, risk 0
C10_WitnessFour ==
    /\ pwd_call # None
    /\ PairFailuresWithin(10) = 4
    /\ ReportsNoAttack

\* The failed logins of the store less than minutes old at the last detect call
FailuresYoungerThan(minutes) ==
    {pwd_call.failures[i] : i \in {j \in DOMAIN pwd_call.failures :
        AgeHalfSeconds(pwd_call.failures[j]) < 2 * 60 * minutes}}

\* C11: password spraying triggers exactly when the failed logins of the last
\* 60 minutes, of any user from any address, show at least 10 distinct
\* usernames and at most 3 distinct source addresses; when it is the only
\* classifier that triggers the result is password_spraying with risk 80.
C11_PasswordSpraying ==
    pwd_call # None =>
        LET recent == FailuresYoungerThan(60)
            users == {f.username : f \in recent}
            ips == {f.ip_address : f \in recent}
        IN /\ pwd_call.triggered.password_spraying
                <=> (Cardinality(users) >= 10 /\ Cardinality(ips) <= 3)
           /\ Cardinality(ips) > 3 => pwd_call.result.attack_type # "password_spraying"
           /\ (/\ pwd_call.triggered.password_spraying
               /\ ~pwd_call.triggered.bruteforce
               /\ ~pwd_call.triggered.credential_stuffing)
              => /\ pwd_call.result.attack_type = "password_spraying"
                 /\ pwd_call.result.risk_score = 80

\* exactly 10 usernames from exactly 3 addresses: reported as spraying
C11_Witness ==
    /\ pwd_call # None
    /\ Cardinality({f.username : f \in FailuresYoungerThan(60)}) = 10
    /\ Cardinality({f.ip_address : f \in FailuresYoungerThan(60)}) = 3
    /\ pwd_call.result.attack_type = "password_spraying"
    /\ pwd_call.result.risk_score = 80

\* 10 usernames whose failures are exactly 60 minutes old: not spraying
C11_WitnessBoundary ==
    /\ pwd_call # None
    /\ \E i \in DOMAIN pwd_call.failures : AgeHalfSeconds(pwd_call.failures[i]) = 7200
    /\ Cardinality({f.username : f \in Range(pwd_call.failures)}) >= 10
    /\ ~pwd_call.triggered.password_spraying

\* C12: the result carries the risk and type of the triggered classifier of
\* highest rank, credential stuffing (90) before brute force (85) before
\* password spraying (80); when no classifier triggers the result is risk 0
\* with no attack reported.
C12_HighestRiskClassifier ==
    pwd_call # None =>
        LET t == pwd_call.triggered
            r == pwd_call.result
        IN IF t.credential_stuffing
             THEN r.attack_detected /\ r.attack_type = "credential_stuffing" /\ r.risk_score = 90
           ELSE IF t.bruteforce
             THEN r.attack_detected /\ r.attack_type = "bruteforce" /\ r.risk_score = 85
           ELSE IF t.password_spraying
             THEN r.attack_detected /\ r.attack_type = "password_spraying" /\ r.risk_score = 80
           ELSE ~r.attack_detected /\ r.attack_type = "None" /\ r.risk_score = 0

\* all three classifiers trigger in one call
C12_Witness ==
    /\ pwd_call # None
    /\ pwd_call.triggered.bruteforce
    /\ pwd_call.triggered.credential_stuffing
    /\ pwd_call.triggered.password_spraying
    /\ pwd_call.result.attack_type = "credential_stuffing"

\* brute force and spraying trigger without credential stuffing
C12_WitnessBruteOverSpray ==
    /\ pwd_call # None
    /\ pwd_call.triggered.bruteforce
    /\ ~pwd_call.triggered.credential_stuffing
    /\ pwd_call.triggered.password_spraying
    /\ pwd_call.result.attack_type = "bruteforce"

\* the result carries the two diagnostics, at top level or in attack_details
ReportsDiagnostics(r) ==
    \/ {"velocity", "acceleration"} \subseteq DOMAIN r
    \/ /\ "attack_details" \in DOMAIN r
       /\ {"velocity", "acceleration"} \subseteq DOMAIN r.attack_details

\* the failed logins of the call's address the detector fetched (60 minutes)
IpFailuresFetched ==
    get_recent_failed_logins(pwd_call.failures, AnyUser, pwd_call.ip_address,
                             pwd_thresholds.generic_attack.window_minutes, now)

\* C13: every result of detect, attack or not, reports velocity and
\* acceleration; both are 0 when fewer than 3 failed logins of the address are
\* in the window.
C13_DiagnosticsAlways ==
    pwd_call # None =>
        /\ ReportsDiagnostics(pwd_call.result)
        /\ Len(IpFailuresFetched) < 3 =>
              /\ pwd_call.result.attack_details.velocity = 0
              /\ pwd_call.result.attack_details.acceleration = 0

\* the same for the results that report an attack
DiagnosticsWhenAttack ==
    (pwd_call # None /\ pwd_call.result.attack_detected) =>
        /\ ReportsDiagnostics(pwd_call.result)
        /\ Len(IpFailuresFetched) < 3 =>
              /\ pwd_call.result.attack_details.velocity = 0
              /\ pwd_call.result.attack_details.acceleration = 0
        /\ pwd_call.result.attack_details.velocity > 0 => Len(IpFailuresFetched) >= 3

\* an attack reported on fewer than 3 failures of the address, and one with a
\* positive velocity
DiagnosticsZeroReached ==
    /\ pwd_call # None
    /\ pwd_call.result.attack_detected
    /\ Len(IpFailuresFetched) < 3

DiagnosticsPositiveReached ==
    /\ pwd_call # None
    /\ pwd_call.result.attack_detected
    /\ pwd_call.result.attack_details.velocity > 0
    /\ pwd_call.result.attack_details.acceleration # 0

(***************************************************************************)
(* Session anomaly detector: properties                                    *)
(***************************************************************************)

SessionCalled == sess_call # None

\* the call analysed a session (at least 2 events)
SessionAnalysed == SessionCalled /\ Len(sess_call.events) >= 2

SensitiveTypes(events) ==
    {events[i].type : i \in DOMAIN events} \cap DOMAIN suspicious_activities

\* the probabilities, in the matrix the call used, of the known transitions
\* of the session
KnownSteps(call) ==
    LET types == event_types_of(sort_events(call.events))
    IN {i \in 2 .. Len(types) :
            KnownTransition(call.transitions_used, types[i - 1], types[i])}

StepAtLeast(call, i, n, d) ==
    LET types == event_types_of(sort_events(call.events))
        row == call.transitions_used[types[i - 1]]
    IN d * row.num[types[i]] >= n * row.den

C14_WitnessExample ==
    /\ SessionAnalysed
    /\ SensitiveTypes(sess_call.events) = {"disable_2fa", "change_email", "export_data"}
    /\ sess_call.result.risk_score = 100

\* the call's session has at least 2 events, each of its transitions has
\* probability at least 0.05 in the matrix the call used, every gap between
\* consecutive events is between 1 s and 1800 s and the whole session takes
\* at most 5 x 900 s
LikelyAndNormallyTimed(call) ==
    /\ Len(call.events) >= 2
    /\ LET sorted_events == sort_events(call.events)
           diffs == time_diffs_of(sorted_events)
       IN /\ KnownSteps(call) = 2 .. Len(sorted_events)
          /\ \A i \in KnownSteps(call) : StepAtLeast(call, i, 5, 100)
          /\ \A i \in DOMAIN diffs : diffs[i] >= 1 /\ diffs[i] <= 1800
          /\ sorted_events[Len(sorted_events)].timestamp - sorted_events[1].timestamp
                <= 5 * 900

ReportsNormalBehaviour(call) ==
    /\ call.result.risk_score = 0
    /\ call.result.status = "normal_behavior"

\* C15 as stated: every session of at least 2 events whose transitions all
\* have probability >= 0.05 in the user's matrix and whose timing is normal
\* gets risk 0 and status normal_behavior.
C15_Original ==
    (SessionCalled /\ LikelyAndNormallyTimed(sess_call))
        => ReportsNormalBehaviour(sess_call)

\* C15 (amended): such a session gets risk 0 and status normal_behavior
\* provided it shows none of the unusual patterns (an action four times in a
\* row, an A-B-A-B-A-B alternation, 7 or more distinct actions among the
\* first 10 events) and contains no sensitive action.
C15_NormalSession ==
    (/\ SessionCalled
     /\ LikelyAndNormallyTimed(sess_call)
     /\ check_unusual_patterns(event_types_of(sort_events(sess_call.events))) = {}
     /\ SensitiveTypes(sess_call.events) = {})
        => /\ ReportsNormalBehaviour(sess_call)
           /\ sess_call.result.anomalies = {}

\* a normal session through a transition of probability exactly 0.05, with
\* a stored model
C15_Witness ==
    /\ SessionCalled
    /\ LikelyAndNormallyTimed(sess_call)
    /\ sess_call.stored_before # None
    /\ \E i \in KnownSteps(sess_call) : ~StepAtLeast(sess_call, i, 51, 1000)
    /\ ReportsNormalBehaviour(sess_call)

\* normal sessions at the limits of normal timing: a gap of 1 s, a gap of
\* 1800 s
C15_WitnessTimingLimits ==
    /\ SessionCalled
    /\ LikelyAndNormallyTimed(sess_call)
    /\ \E i \in 1 .. Len(sess_call.events) - 1 :
          sess_call.events[i + 1].timestamp - sess_call.events[i].timestamp \in {1, 1800}
    /\ ReportsNormalBehaviour(sess_call)

\* a likely, normally timed session that alternates between two pages
C15_WitnessCyclic ==
    /\ SessionCalled
    /\ LikelyAndNormallyTimed(sess_call)
    /\ "cyclic_pattern" \in
          check_unusual_patterns(event_types_of(sort_events(sess_call.events)))
    /\ sess_call.result.risk_score = 75
    /\ sess_call.result.status = "suspicious_behavior"

StoredAfter == user_models[sess_call.user_id]

ModelWritten == StoredAfter # sess_call.stored_before

\* C16: detect writes the user's model (transition matrix, rolling averages,
\* session_count) exactly when it analysed the session and the combined
\* anomaly score is below 0.7; after a session with combined anomaly >= 0.7
\* and after an insufficient_data result the stored model of the user is what
\* it was before the call.
C16_LearnsIffBelowThreshold ==
    SessionCalled =>
        /\ ModelWritten <=>
              (SessionAnalysed /\ FracLess(sess_call.combined, Frac(7, 10)))
        /\ ModelWritten =>
              /\ StoredAfter.session_count =
                    (IF sess_call.stored_before = None THEN 0
                     ELSE sess_call.stored_before.session_count) + 1
              /\ StoredAfter.transitions =
                    update_transitions(sess_call.transitions_used,
                                       event_types_of(sort_events(sess_call.events)), 2)
              /\ StoredAfter.updated_at = now
        /\ sess_call.result.status = "insufficient_data" => ~ModelWritten

\* a session with a long gap (anomaly 0.6, risk 49) is learned: the stored
\* matrix differs from the one the call used
C16_Witness ==
    /\ SessionAnalysed
    /\ FracEq(sess_call.combined, Frac(6, 10))
    /\ ModelWritten
    /\ sess_call.stored_before # None
    /\ StoredAfter.transitions # sess_call.stored_before.transitions

\* a session with combined anomaly exactly 0.7 leaves a stored model as it was
C16_WitnessNotLearned ==
    /\ SessionAnalysed
    /\ FracEq(sess_call.combined, Frac(7, 10))
    /\ sess_call.stored_before # None
    /\ ~ModelWritten

C16_WitnessInsufficientData ==
    /\ SessionCalled
    /\ sess_call.result.status = "insufficient_data"
    /\ sess_call.stored_before # None
    /\ ~ModelWritten

\* a user's stored model changes only in a call for that user
OtherModelsUntouched ==
    [][\A u \in SessUsers :
          user_models'[u] # user_models[u] => sess_call'.user_id = u]_vars

\* the row sums to 1 and each of its entries is a probability
RowNormalised(row) ==
    /\ row.den > 0
    /\ SumOver(row.num, DOMAIN row.num) = row.den
    /\ \A c \in DOMAIN row.num : row.num[c] >= 0 /\ row.num[c] <= row.den

MatrixNormalised(transitions) ==
    \A r \in DOMAIN transitions : RowNormalised(transitions[r])

\* C17: after any sequence of detect calls for any users, every row of
\* every stored user transition matrix sums to 1 and every entry is a
\* probability in [0, 1].
C17_RowsSumToOne ==
    \A u \in SessUsers :
        user_models[u] # None => MatrixNormalised(user_models[u].transitions)

\* a stored matrix written by two detect calls, the second of which changed
\* a row of it
C17_Witness ==
    /\ SessionAnalysed
    /\ ModelWritten
    /\ StoredAfter.session_count = 2
    /\ StoredAfter.transitions # sess_call.transitions_used
    /\ MatrixNormalised(StoredAfter.transitions)

\* the rows of default_transitions, which the model of a user without a
\* stored model is built on, stay normalised as well
DefaultRowsNormalised == MatrixNormalised(default_transitions)

\* a learned session of a new user changes default_transitions
DefaultsChangedReached == default_transitions # DefaultTransitions

(***************************************************************************)
(* Device fingerprinter and login history: properties                      *)
(***************************************************************************)

\* the last analyze call got through the analysis of a fingerprint
DeviceAnalysed == dev_call # None /\ "is_known_device" \in DOMAIN dev_call.result

AnalysedDevice == device_id_of(dev_call.fingerprint_data)

\* the last call analysed a fingerprint of a device the store had no record
\* of, and the next call analyses the identical fingerprint
SameFingerprintAgain ==
    /\ DeviceAnalysed
    /\ dev_call.stored_before[AnalysedDevice] = None
    /\ analyses_done' = analyses_done + 1
    /\ dev_call'.fingerprint_data = dev_call.fingerprint_data

\* C18: when an identical fingerprint is analysed twice for the same device
\* id, starting from a store without a record of the device, the first call
\* creates the device with visit_count 1 and the second call reports
\* is_known_device true and visit_count 2.
C18_SecondVisitCounted ==
    [][SameFingerprintAgain =>
          /\ devices[AnalysedDevice] # None
          /\ Get(devices[AnalysedDevice], "visit_count", 0) = 1
          /\ dev_call'.result.is_known_device
          /\ dev_call'.result.device_history.visit_count = 2]_vars

\* what the two calls do: the record written by the first call holds the
\* device data under user_id and no visit_count of its own, and the second
\* call reports a known device with visit_count 1 and no first_seen
SecondVisitAsImplemented ==
    [][SameFingerprintAgain =>
          /\ devices[AnalysedDevice] # None
          /\ DOMAIN devices[AnalysedDevice] = {"device_id", "user_id", "updated_at"}
          /\ devices[AnalysedDevice].user_id.visit_count = 1
          /\ dev_call'.result.is_known_device
          /\ dev_call'.result.device_history =
                [first_seen |-> None, last_seen |-> None, visit_count |-> 1]
          /\ devices'[AnalysedDevice].user_id.visit_count = 1]_vars

\* an identical fingerprint has been analysed twice in a row for a device
\* that was new
SecondVisitReached ==
    /\ DeviceAnalysed
    /\ dev_call.result.is_known_device
    /\ dev_call.stored_before[AnalysedDevice].user_id.fingerprints
          = <<dev_call.fingerprint_data>>
    /\ "user_id" \notin DOMAIN dev_call.stored_before[AnalysedDevice].user_id

\* the fingerprint list of the device record, as _store_fingerprint reads it
StoredFingerprints(device_data) ==
    IF device_data = None THEN << >> ELSE Get(device_data, "fingerprints", << >>)

\* C19: after any sequence of analyses and logins no bounded list exceeds
\* its cap: the stored fingerprint list of a device holds at most 5 entries,
\* the 5 most recently analysed fingerprints, and the stored login history
\* of a user holds at most 10 entries, the most recent logins.
C19_BoundedLists ==
    [][/\ \A d \in DeviceIds : Len(StoredFingerprints(devices'[d])) <= 5
       /\ (analyses_done' = analyses_done + 1
              /\ "is_known_device" \in DOMAIN dev_call'.result)
            => LET d == device_id_of(dev_call'.fingerprint_data)
               IN StoredFingerprints(devices'[d]) =
                     LastOf(Append(StoredFingerprints(devices[d]),
                                   dev_call'.fingerprint_data), 5)
       /\ \A u \in Users :
             /\ Len(logins'[u]) <= 10
             /\ last_login'[u] # last_login[u]
                   => logins'[u] = LastOf(Append(logins[u], last_login'[u]), 10)]_vars

\* the fingerprint list a record holds at any depth (under 'user_id') never
\* has more than one entry: the fingerprint of the last analysis
RECURSIVE OneFingerprintAtMost(_)
OneFingerprintAtMost(device_data) ==
    /\ Len(Get(device_data, "fingerprints", << >>)) <= 1
    /\ "user_id" \in DOMAIN device_data => OneFingerprintAtMost(device_data.user_id)

\* the depth of the record, which grows by one with every analysis
RECURSIVE Depth(_)
Depth(device_data) ==
    IF "user_id" \in DOMAIN device_data THEN 1 + Depth(device_data.user_id) ELSE 0

FingerprintListsAsImplemented ==
    \A d \in DeviceIds :
        devices[d] # None =>
            /\ StoredFingerprints(devices[d]) = << >>
            /\ OneFingerprintAtMost(devices[d])
            /\ Depth(devices[d]) <= analyses_done

\* a device record nested three deep, after three analyses of the device
NestedRecordReached == \E d \in DeviceIds : devices[d] # None /\ Depth(devices[d]) = 3

\* the login history of a user holds at most 10 logins, the most recent
\* ones in the order stored, and ends with the user's last_login
LoginHistoryBounded ==
    \A u \in Users :
        /\ Len(logins[u]) <= 10
        /\ last_login[u] = None <=> logins[u] = << >>
        /\ last_login[u] # None => logins[u][Len(logins[u])] = last_login[u]

LoginHistoryKeepsMostRecent ==
    [][\A u \in Users :
          IF last_login'[u] # last_login[u]
            THEN logins'[u] = LastOf(Append(logins[u], last_login'[u]), 10)
          ELSE logins'[u] = logins[u]]_vars

\* an eleventh login has been stored and the oldest dropped
LoginHistoryTrimmedReached ==
    /\ geo_call # None
    /\ \E u \in Users :
          /\ Len(logins[u]) = 10
          /\ logins[u][10].timestamp >= T0
          /\ logins[u][1] = StoredLogins(10)[2]

\* the last analyze call raised inside the detector
DeviceAnalysisRaised ==
    /\ dev_call # None
    /\ DOMAIN dev_call.fingerprint_data # {}
    /\ RaisesAttributeError(dev_call.fingerprint_data)

\* C20: an exception raised inside a detector is caught at the detector
\* boundary and returned as the detector's result with status error and
\* risk_score 50 (here: the device fingerprinter).
C20_ErrorResult ==
    DeviceAnalysisRaised =>
        /\ Get(dev_call.result, "status", "") = "error"
        /\ dev_call.result.risk_score = 50

\* what the device fingerprinter returns when it catches an exception: risk
\* 60 with the issue analysis_error and no status; the store is untouched
DeviceErrorAsImplemented ==
    DeviceAnalysisRaised =>
        /\ dev_call.result.risk_score = 60
        /\ dev_call.result.issues = <<"analysis_error">>
        /\ dev_call.result.is_suspicious
        /\ "status" \notin DOMAIN dev_call.result
        /\ devices = dev_call.stored_before

DeviceErrorReached == DeviceAnalysisRaised /\ analyses_done = 2

(***************************************************************************)
(* Session anomaly detector: the default matrix and the pairs of a stored  *)
(* matrix                                                                  *)
(***************************************************************************)

\* C28: scoring and learning from the sessions of one user never changes
\* default_transitions: after any sequence of detect calls it is the
\* original default matrix, and a user without a stored model is scored
\* against the original default matrix.
C28_DefaultsNeverChange ==
    /\ default_transitions = DefaultTransitions
    /\ (SessionAnalysed /\ sess_call.stored_before = None)
          => sess_call.transitions_used = DefaultTransitions

\* a user without a stored model has been scored against a matrix that an
\* earlier session of another user changed
ScoredAgainstChangedDefaultsReached ==
    /\ SessionAnalysed
    /\ sess_call.stored_before = None
    /\ sess_call.transitions_used # DefaultTransitions
    /\ \A u \in SessUsers \ {sess_call.user_id} : user_models[u] # None

\* default_transitions changes exactly in the calls that learn a session of
\* a user without a stored model
DefaultsChangeAsImplemented ==
    [][default_transitions' # default_transitions
          => /\ sess_call'.stored_before = None
             /\ FracLess(sess_call'.combined, Frac(7, 10))
             /\ Len(sess_call'.events) >= 2]_vars

\* the (from, to) pairs of a transition matrix
Pairs(transitions) ==
    UNION {{<<r, c>> : c \in DOMAIN transitions[r].num} : r \in DOMAIN transitions}

\* the session of the call has a transition that the matrix used does not hold
HasUnknownTransition(call) ==
    KnownSteps(call) # 2 .. Len(call.events)

\* C29: a session that contains a transition absent from the user's current
\* matrix scores a combined anomaly of at least 0.7 and does not update the
\* stored model; a call that updates the stored model leaves the set of
\* (from, to) pairs as it was, so no stored matrix ever holds a pair that
\* was absent from the matrix the user started with.
C29_NoNewPairs ==
    /\ (SessionAnalysed /\ HasUnknownTransition(sess_call))
          => /\ ~FracLess(sess_call.combined, Frac(7, 10))
             /\ ~ModelWritten
    /\ (SessionAnalysed /\ ModelWritten)
          => Pairs(StoredAfter.transitions) = Pairs(sess_call.transitions_used)
    /\ \A u \in SessUsers :
          user_models[u] # None
            => Pairs(user_models[u].transitions) \subseteq Pairs(DefaultTransitions)

\* a session with an unknown transition and nothing else unusual: anomaly
\* exactly 0.7, the stored model stays as it was
C29_Witness ==
    /\ SessionAnalysed
    /\ HasUnknownTransition(sess_call)
    /\ FracEq(sess_call.combined, Frac(7, 10))
    /\ sess_call.result.risk_score = 62
    /\ ~ModelWritten

\* a stored matrix after two learned sessions, with the pairs it started with
C29_WitnessLearned ==
    /\ SessionAnalysed
    /\ ModelWritten
    /\ StoredAfter.session_count = 2
    /\ Pairs(StoredAfter.transitions) = Pairs(DefaultTransitions)

(***************************************************************************)
(* Geo-velocity detector: the stored last login over a sequence of calls   *)
(* with timestamps in any order.                                           *)
(***************************************************************************)

\* a call for a user whose last login is stored
CallWithStoredLogin == geo_call # None /\ geo_call.previous_login # None
\* the call replaced the stored last login
LoginReplaced == last_login[geo_call.user_id] # geo_call.previous_login
\* the request is timestamped earlier than the stored login
EarlierThanStored == geo_call.timestamp < geo_call.previous_login.timestamp
StoredTimestampMonotone ==
    CallWithStoredLogin =>
        /\ last_login[geo_call.user_id].timestamp >= geo_call.previous_login.timestamp
        /\ LoginReplaced =>
              last_login[geo_call.user_id].timestamp
                  >= geo_call.previous_login.timestamp + 60

C30_WitnessStored ==
    /\ CallWithStoredLogin
    /\ LoginReplaced
    /\ last_login[geo_call.user_id].timestamp > geo_call.previous_login.timestamp

(***************************************************************************)
(* Account velocity monitor: the distributed pattern.                      *)
(***************************************************************************)

VelocityChecked == vel_in # None /\ vel_result # None
\* the registration lists check passes to _check_velocity_patterns
SubnetRegistrations ==
    IF get_subnet(vel_in.ip_address) # NoEntity
      THEN get_registrations_by_entity("subnet", get_subnet(vel_in.ip_address),
                                       vel_in.draws.subnet, now)
    ELSE << >>
DomainRegistrations ==
    IF get_email_domain(vel_in.email) # NoEntity
      THEN get_registrations_by_entity("email_domain", get_email_domain(vel_in.email),
                                       vel_in.draws.email_domain, now)
    ELSE << >>
DistributedReported ==
    /\ vel_result.patterns # None
    /\ "distributed" \in DOMAIN vel_result.patterns
\* registrations of the list not older than one hour at the time of the check
InLastHour(registrations) == SelectSeq(registrations, LAMBDA ts : now - ts <= 3600)
\* registrations of the list at most one hour older than its newest one
WithinHourOfNewest(registrations) ==
    SelectSeq(registrations,
              LAMBDA ts : \A other \in RangeOf(registrations) : other - ts <= 3600)

\* C27: check reports the distributed pattern exactly when the subnet's and
\* the email domain's registration lists both hold more than 10
\* registrations and more than 5 registrations that are not older than one
\* hour at the time of the check; where it is the reported status the risk
\* is 80.
C27_DistributedInLastHour ==
    VelocityChecked =>
        /\ DistributedReported <=>
              /\ Len(SubnetRegistrations) > 10 /\ Len(DomainRegistrations) > 10
              /\ Len(InLastHour(SubnetRegistrations)) > 5
              /\ Len(InLastHour(DomainRegistrations)) > 5
        /\ vel_result.status = "distributed_pattern" => vel_result.risk_score = 80

\* what check does: the hour is counted back from the newest registration of
\* each list, wherever that lies in the last 24 hours
DistributedAsImplemented ==
    VelocityChecked =>
        /\ DistributedReported <=>
              /\ Len(SubnetRegistrations) > 10 /\ Len(DomainRegistrations) > 10
              /\ Len(WithinHourOfNewest(SubnetRegistrations)) > 5
              /\ Len(WithinHourOfNewest(DomainRegistrations)) > 5
        /\ vel_result.status = "distributed_pattern" => vel_result.risk_score = 80

\* the pattern has been reported with status distributed_pattern although
\* no registration of the subnet lies in the hour before the check
DistributedOnOldRegistrationsReached ==
    /\ VelocityChecked
    /\ vel_result.status = "distributed_pattern"
    /\ Len(InLastHour(SubnetRegistrations)) = 0

(***************************************************************************)
(* The store contract: a login stored and read back at once.               *)
(***************************************************************************)

LoginStored == db_call # None
\* the login read back is the login stored, in ip, location and timestamp
ReadBackSame ==
    /\ db_call.read_back # None
    /\ db_call.read_back.ip = db_call.login_data.ip
    /\ db_call.read_back.location = db_call.login_data.location
    /\ db_call.read_back.timestamp = db_call.login_data.timestamp

\* C26: with every store implementation, a login stored through store_login
\* and read back at once through get_last_login for the same user comes
\* back with the same ip, location and timestamp.
C26_LoginRoundTrip == LoginStored => ReadBackSame

\* what holds: the round trip of Database, in file and in mongodb mode
DatabaseRoundTrip == (LoginStored /\ db_type \in {"file", "mongodb"}) => ReadBackSame

\* MockDatabase reads back nothing, or the newest login of its collection
MockDatabaseReadsCollection ==
    (LoginStored /\ db_type = "mock") =>
        /\ db_call.read_back # db_call.login_data
        /\ db_call.read_back = None \/ db_call.read_back.ip = "ip_b"

DatabaseRoundTripReached ==
    /\ LoginStored
    /\ db_type = "file"
    /\ db_calls_done = 2
    /\ ReadBackSame

MockDatabaseReadsNothingReached ==
    /\ LoginStored
    /\ db_type = "mock"
    /\ db_call.read_back = None

(***************************************************************************)
(* The entry points: the shape of the response, the detectors' view of the *)
(* login store within one request, and a detector call that does not       *)
(* return.                                                                 *)
(***************************************************************************)

Responded == http_response # None
CompleteResponse ==
    /\ http_response.status = 200
    /\ {"overall_risk", "risk_level", "recommendation", "predictors"}
          \subseteq DOMAIN http_response.body
    /\ DOMAIN http_response.body.predictors = Signals
    /\ \A s \in Signals : "risk_score" \in DOMAIN http_response.body.predictors[s]

\* C21: every request to an analysis entry point, whatever its body and
\* whether or not the user is known, is answered with the complete response:
\* overall_risk, risk_level, recommendation and the eight signal results.
C21_AlwaysCompleteResponse == Responded => CompleteResponse

\* what the handlers do: the complete response for a body that is a JSON
\* object (or, in analyze_user, no body where request.json gives None) and a
\* known user, else {error} with status 500 or, for an unknown user, 404
ResponseAsImplemented ==
    Responded =>
        IF http_request.args # None THEN CompleteResponse
        ELSE /\ DOMAIN http_response.body = {"error"}
             /\ http_response.status =
                   IF /\ http_request.endpoint = "analyze-user"
                      /\ http_request.path_user = UnknownUser
                      /\ http_request.json \in {"None", "dict"}
                   THEN 404 ELSE 500

ErrorResponseReached ==
    /\ Responded
    /\ http_request.endpoint = "analyze"
    /\ http_request.body.kind = "missing"
    /\ http_response = error_response(500)

CompleteResponseOnDetectorErrorsReached ==
    /\ Responded
    /\ CompleteResponse
    /\ http_request.others = ErrorResults

\* the results computed on the login store as it was when the request came
AccessTimeOnStartState ==
    access_time_analyze(get_login_history([logins |-> logins_at_start],
                                          http_request.args.user_id),
                        http_request.args.timestamp, http_request.verdict)
GeoVelocityOnStartState ==
    detect_outcome([logins |-> logins_at_start, last_login |-> last_login],
                   http_request.args.user_id, http_request.args.ip_address,
                   http_request.args.timestamp).result

\* C25: within one request each detector's result is the one it computes
\* from the store as it was when the request arrived and from the request
\* fields; the access-time result is the same whether or not geo-velocity
\* has already written the login of the request.
C25_ResultsFromStartState ==
    "access_time" \in DOMAIN handler_results =>
        handler_results["access_time"] = AccessTimeOnStartState

\* what holds: access-time sees the login history as geo-velocity left it
AccessTimeAsImplemented ==
    "access_time" \in DOMAIN handler_results =>
        handler_results["access_time"] =
            access_time_analyze(get_login_history([logins |-> logins],
                                                  http_request.args.user_id),
                                http_request.args.timestamp, http_request.verdict)

AccessTimeSawGeoWriteReached ==
    /\ "access_time" \in DOMAIN handler_results
    /\ logins # logins_at_start
    /\ AccessTimeOnStartState.status = "insufficient_history"
    /\ handler_results["access_time"].status # "insufficient_history"

\* C24: when a detector call does not return, the analysis still completes:
\* the response is given, with score 0 and status unavailable for that
\* detector.
C24_CompletesDespiteBlockedDetector ==
    (handler_pc.at = "blocked") ~>
        /\ handler_pc.at = "done"
        /\ CompleteResponse
        /\ http_response.body.predictors["geo_velocity"] =
              [risk_score |-> 0, status |-> "unavailable"]

\* what holds: a handler blocked in a detector call stays blocked, without
\* a response
BlockedForever ==
    [][handler_pc.at = "blocked" => (handler_pc' = handler_pc /\ http_response' = None)]_vars

BlockedReached == handler_pc.at = "blocked" /\ http_response = None

\* requests whose calls all return are answered
AnsweredWhenCallsReturn ==
    (handler_pc.at = "calling") ~> (handler_pc.at \in {"done", "blocked"})

(***************************************************************************)
(* Concurrent GeoVelocityDetector.detect calls for one user.               *)
(***************************************************************************)

GeoCallsReturned == \A t \in Threads : geo_threads[t].pc = "returned"
DetectOf(store, t) ==
    detect_outcome(store, geo_threads[t].args.user_id, geo_threads[t].args.ip_address,
                   geo_threads[t].args.timestamp)
\* the results and the store are those of the calls run one after the other
SerialOutcome(first, second) ==
    LET a == DetectOf(store_at_start, first)
        b == DetectOf(a.store, second)
    IN /\ geo_threads[first].result = a.result
       /\ geo_threads[second].result = b.result
       /\ [logins |-> logins, last_login |-> last_login] = b.store
SameUser == geo_threads[1].args.user_id = geo_threads[2].args.user_id

\* C22: two concurrent GeoVelocityDetector.detect calls for the same user
\* exclude each other over read, compare and store: the results and the
\* store after any interleaving are those of one of the two serial orders.
C22_DetectCallsSerializable ==
    (GeoCallsReturned /\ SameUser) => SerialOutcome(1, 2) \/ SerialOutcome(2, 1)

\* what holds: each call answers and stores as if it ran alone on the store
\* it read
DetectOnLoginRead ==
    \A t \in DOMAIN geo_threads :
        geo_threads[t].pc = "returned" =>
            geo_threads[t].result =
                detect_after_read(store_at_start, geo_threads[t].previous_login,
                                  geo_threads[t].args.user_id,
                                  geo_threads[t].args.ip_address,
                                  geo_threads[t].args.timestamp).result

\* two concurrent first requests have both been answered first_login
BothFirstLoginReached ==
    /\ GeoCallsReturned
    /\ SameUser
    /\ store_at_start.last_login[geo_threads[1].args.user_id] = None
    /\ \A t \in Threads : geo_threads[t].result.status = "first_login"

SerialInterleavingReached ==
    /\ GeoCallsReturned
    /\ SameUser
    /\ SerialOutcome(1, 2)
    /\ geo_threads[2].result.status # "first_login"

(***************************************************************************)
(* Concurrent DeviceFingerprinter.analyze calls for one device id.         *)
(***************************************************************************)

AnalysesReturned ==
    /\ dev_threads # << >>
    /\ \A t \in Analysers : dev_threads[t].pc = "returned"
RacedDevice == device_id_of(dev_threads[1].fingerprint_data)

\* C23: after N analyses of the same device id have run, in any
\* interleaving, the stored visit_count of the device is N.
C23_VisitCountIsNumberOfAnalyses ==
    AnalysesReturned =>
        /\ devices[RacedDevice] # None
        /\ Get(devices[RacedDevice], "visit_count", 0) = NumAnalysers

\* what holds in every interleaving, the serial ones included: the record
\* has no visit_count of its own, and the device data it holds under
\* user_id has visit_count 1
VisitCountAsImplemented ==
    AnalysesReturned =>
        /\ devices[RacedDevice] # None
        /\ "visit_count" \notin DOMAIN devices[RacedDevice]
        /\ devices[RacedDevice].user_id.visit_count = 1

\* the analyses ran one after the other
SerialAnalysesReached ==
    /\ AnalysesReturned
    /\ \A t \in Analysers : t > 1 => dev_threads[t].device_history # None
    /\ \A t \in Analysers : t < NumAnalysers
          => dev_threads[t].device_data # dev_threads[t + 1].device_data

\* all analyses read the store before any of them wrote
AllReadBeforeWriteReached ==
    /\ AnalysesReturned
    /\ \A t \in Analysers : dev_threads[t].device_data = None

====
